---------------------------- MODULE Spec2Model ----------------------------
(***************************************************************************)
(* A model of class PasswdGroupShadow of src/python3/wgtk.py: the account  *)
(* database loaded from /etc/{passwd,group,shadow,gshadow,subuid,subgid},  *)
(* its mutation API, its two verification stages and _fixate.              *)
(*                                                                         *)
(* Representation.  A Python dict is a function on the set of its keys, a  *)
(* Python list is a sequence.  A file is a sequence of lines; a line is a  *)
(* record [kind |-> "blank"], [kind |-> "comment"] or                      *)
(* [kind |-> "fields", t |-> the tuple line.split(":")], with the numeric  *)
(* fields already as integers.  The string gr_mem is held as the tuple     *)
(* gr_mem.split(","): "" is <<"">>, "a,b" is <<"a","b">>, "a,,b" is        *)
(* <<"a","","b">>; str.split and str.join are inverse on these, so the     *)
(* tuple stands for exactly one string.                                    *)
(***************************************************************************)
EXTENDS Integers, Sequences, FiniteSets, TLC

\* ------------------------------------------------------------------------
\* Python list and dict primitives

InList(x, s) == \E i \in 1..Len(s) : s[i] = x

ListSet(s) == {s[i] : i \in 1..Len(s)}

\* list.remove(x): the first occurrence only
ListRemove(s, x) ==
    LET i == CHOOSE k \in 1..Len(s) : s[k] = x /\ \A j \in 1..(k - 1) : s[j] # x
    IN  SubSeq(s, 1, i - 1) \o SubSeq(s, i + 1, Len(s))

\* [x for x in s if x != ""]
NonEmptyTokens(s) == SelectSeq(s, LAMBDA x : x # "")

\* ",".join(ulist), as the tuple of its split(",")
JoinTokens(ulist) == IF ulist = <<>> THEN <<"">> ELSE ulist

EmptyDict == <<>>

DictSet(d, k, v) == [x \in (DOMAIN d) \cup {k} |-> IF x = k THEN v ELSE d[x]]

DictDel(d, k) == [x \in (DOMAIN d) \ {k} |-> d[x]]

DictValues(d) == {d[k] : k \in DOMAIN d}

\* list.sort(key=...) and sorted(): stable, ascending
RECURSIVE InsertByKey(_, _, _)
InsertByKey(x, s, key) ==
    IF s = <<>> THEN <<x>>
    ELSE IF key[x] < key[Head(s)] THEN <<x>> \o s
    ELSE <<Head(s)>> \o InsertByKey(x, Tail(s), key)

RECURSIVE SortByKey(_, _)
SortByKey(s, key) ==
    IF s = <<>> THEN <<>>
    ELSE InsertByKey(s[Len(s)], SortByKey(SubSeq(s, 1, Len(s) - 1), key), key)

\* ------------------------------------------------------------------------
\* Fixed name lists of the class

StdSystemUserList == <<"root", "nobody">>

StdDeprecatedUserList == <<"bin", "daemon", "adm", "shutdown", "halt", "operator", "lp">>

StdSystemGroupList == <<"root", "nobody", "nogroup", "wheel", "users">>

StdDeviceGroupList ==
    <<"tty", "disk", "lp", "mem", "kmem", "floppy", "console", "audio", "cdrom",
      "tape", "video", "cdrw", "usb", "plugdev", "input", "kvm">>

StdDeprecatedGroupList == <<"bin", "daemon", "sys", "adm">>

MUSER_SET_PASSWORD == 1

MUSER_SET_SHELL == 2

MUSER_JOIN_GROUP == 3

MUSER_LEAVE_GROUP == 4

\* ------------------------------------------------------------------------
\* Record constructors

PwdEntry(t) ==
    [pw_name |-> t[1], pw_passwd |-> t[2], pw_uid |-> t[3], pw_gid |-> t[4],
     pw_gecos |-> t[5], pw_dir |-> t[6], pw_shell |-> t[7]]

GrpEntry(t) ==
    [gr_name |-> t[1], gr_passwd |-> t[2], gr_gid |-> t[3], gr_mem |-> t[4]]

ShadowEntry(t) == [sh_name |-> t[1], sh_encpwd |-> t[2]]

SubUidGidEntry(name, start, count) == [name |-> name, start |-> start, count |-> count]

\* hosts.linux_context.encrypt(password): an opaque hash string; the engine
\* reads only its length, which is above the threshold of _verifyStage1
Encrypt(password) == "$6$salt$hash"

\* "/home/%s" % (username), for the names the calls of this model use
HomeDir(username) ==
    CASE username = "alice" -> "/home/alice"
      [] username = "bob" -> "/home/bob"
      [] username = "carol" -> "/home/carol"
      [] OTHER -> "/home/_"

\* ------------------------------------------------------------------------
\* The object after the attribute initialisation of __init__ (lines 161-217),
\* with the limits that _parseLoginDef reads from login.defs.  exc is the
\* exception the running method has raised, "none" while it has not.
\* sameList says that self.perUserGroupList and self.normalUserList are one
\* and the same list object, as _fixate leaves them: what is appended to or
\* removed from one of them is then appended to or removed from the other.

NewObject(defs) ==
    [uidMin |-> defs.uidMin, uidMax |-> defs.uidMax,
     gidMin |-> defs.gidMin, gidMax |-> defs.gidMax,
     subUidMin |-> defs.subUidMin, subUidMax |-> defs.subUidMax,
     subUidCount |-> defs.subUidCount,
     subGidMin |-> defs.subGidMin, subGidMax |-> defs.subGidMax,
     subGidCount |-> defs.subGidCount,
     systemUserList |-> <<>>, normalUserList |-> <<>>,
     softwareUserList |-> <<>>, deprecatedUserList |-> <<>>,
     pwdDict |-> EmptyDict,
     systemGroupList |-> <<>>, deviceGroupList |-> <<>>,
     perUserGroupList |-> <<>>, standAloneGroupList |-> <<>>,
     softwareGroupList |-> <<>>, deprecatedGroupList |-> <<>>,
     secondaryGroupsDict |-> EmptyDict, grpDict |-> EmptyDict,
     shadowEntryList |-> <<>>, shDict |-> EmptyDict,
     subUidEntryList |-> <<>>, subUidDict |-> EmptyDict,
     subGidEntryList |-> <<>>, subGidDict |-> EmptyDict,
     sameList |-> FALSE,
     exc |-> "none"]

Raise(o, e) == [o EXCEPT !.exc = e]

\* _parseLoginDef, the checks after the nine keys are read
ParseLoginDefOK(defs) ==
    /\ ~(defs.uidMax < defs.uidMin)
    /\ ~(defs.gidMax < defs.gidMin)
    /\ ~(defs.subUidMax < defs.subUidMin)
    /\ (defs.subUidMax - defs.subUidMin) % defs.subUidCount = 0
    /\ ~(defs.subGidMax < defs.subGidMin)
    /\ (defs.subGidMax - defs.subGidMin) % defs.subGidCount = 0

Skipped(line) == line.kind = "blank" \/ line.kind = "comment"

\* one line of _parsePasswd
ParsePasswdLine(o, line) ==
    IF Skipped(line) THEN o
    ELSE LET t == line.t IN
         IF Len(t) # 7 THEN Raise(o, "PgsFormatError")
         ELSE LET o1 == [o EXCEPT !.pwdDict = DictSet(@, t[1], PwdEntry(t))] IN
              IF InList(t[1], StdSystemUserList)
                THEN [o1 EXCEPT !.systemUserList = Append(@, t[1])]
              ELSE IF o.uidMin <= t[3] /\ t[3] < o.uidMax
                THEN [o1 EXCEPT !.normalUserList = Append(@, t[1])]
              ELSE IF InList(t[1], StdDeprecatedUserList)
                THEN [o1 EXCEPT !.deprecatedUserList = Append(@, t[1])]
              ELSE [o1 EXCEPT !.softwareUserList = Append(@, t[1])]

\* the loop of _parseGroup over the member tokens of one line
RECURSIVE AddSecondary(_, _, _)
AddSecondary(d, tokens, gname) ==
    IF tokens = <<>> THEN d
    ELSE LET u == Head(tokens) IN
         IF u = "" THEN AddSecondary(d, Tail(tokens), gname)
         ELSE AddSecondary(
                DictSet(d, u, Append(IF u \in DOMAIN d THEN d[u] ELSE <<>>, gname)),
                Tail(tokens), gname)

\* one line of _parseGroup
ParseGroupLine(o, line) ==
    IF Skipped(line) THEN o
    ELSE LET t == line.t IN
         IF Len(t) # 4 THEN Raise(o, "PgsFormatError")
         ELSE LET o1 == [o EXCEPT !.grpDict = DictSet(@, t[1], GrpEntry(t))]
                  o2 == IF InList(t[1], StdSystemGroupList)
                          THEN [o1 EXCEPT !.systemGroupList = Append(@, t[1])]
                        ELSE IF InList(t[1], o.normalUserList)
                          THEN [o1 EXCEPT !.perUserGroupList = Append(@, t[1])]
                        ELSE IF InList(t[1], StdDeviceGroupList)
                          THEN [o1 EXCEPT !.deviceGroupList = Append(@, t[1])]
                        ELSE IF InList(t[1], StdDeprecatedGroupList)
                          THEN [o1 EXCEPT !.deprecatedGroupList = Append(@, t[1])]
                        ELSE IF o.gidMin <= t[3] /\ t[3] < o.gidMax
                          THEN [o1 EXCEPT !.standAloneGroupList = Append(@, t[1])]
                        ELSE [o1 EXCEPT !.softwareGroupList = Append(@, t[1])]
              IN [o2 EXCEPT !.secondaryGroupsDict = AddSecondary(@, t[4], t[1])]

\* one line of _parseShadow
ParseShadowLine(o, line) ==
    IF Skipped(line) THEN o
    ELSE LET t == line.t IN
         IF Len(t) # 9 THEN Raise(o, "PgsFormatError")
         ELSE [o EXCEPT !.shDict = DictSet(@, t[1], ShadowEntry(t)),
                        !.shadowEntryList = Append(@, t[1])]

\* one line of _parseSubUid
ParseSubUidLine(o, line) ==
    IF Skipped(line) THEN o
    ELSE LET t == line.t IN
         IF Len(t) # 3 THEN Raise(o, "PgsFormatError")
         ELSE [o EXCEPT !.subUidDict = DictSet(@, t[1], SubUidGidEntry(t[1], t[2], t[3])),
                        !.subUidEntryList = Append(@, t[1])]

\* one line of _parseSubGid
ParseSubGidLine(o, line) ==
    IF Skipped(line) THEN o
    ELSE LET t == line.t IN
         IF Len(t) # 3 THEN Raise(o, "PgsFormatError")
         ELSE [o EXCEPT !.subGidDict = DictSet(@, t[1], SubUidGidEntry(t[1], t[2], t[3])),
                        !.subGidEntryList = Append(@, t[1])]

\* "for line in ...": the first exception ends the loop.  A file of etc is
\* [exists |-> BOOLEAN, lines |-> its lines].
RECURSIVE PasswdLoop(_, _)
PasswdLoop(o, lines) ==
    IF lines = <<>> \/ o.exc # "none" THEN o
    ELSE PasswdLoop(ParsePasswdLine(o, Head(lines)), Tail(lines))

RECURSIVE GroupLoop(_, _)
GroupLoop(o, lines) ==
    IF lines = <<>> \/ o.exc # "none" THEN o
    ELSE GroupLoop(ParseGroupLine(o, Head(lines)), Tail(lines))

RECURSIVE ShadowLoop(_, _)
ShadowLoop(o, lines) ==
    IF lines = <<>> \/ o.exc # "none" THEN o
    ELSE ShadowLoop(ParseShadowLine(o, Head(lines)), Tail(lines))

RECURSIVE SubUidLoop(_, _)
SubUidLoop(o, lines) ==
    IF lines = <<>> \/ o.exc # "none" THEN o
    ELSE SubUidLoop(ParseSubUidLine(o, Head(lines)), Tail(lines))

RECURSIVE SubGidLoop(_, _)
SubGidLoop(o, lines) ==
    IF lines = <<>> \/ o.exc # "none" THEN o
    ELSE SubGidLoop(ParseSubGidLine(o, Head(lines)), Tail(lines))

\* open() of a missing file
ReadOrRaise(o, file) == IF file.exists THEN o ELSE Raise(o, "FileNotFoundError")

\* Each parser runs only if none before it raised.
ParsePasswd(o, etc) == PasswdLoop(ReadOrRaise(o, etc.passwd), etc.passwd.lines)

ParseGroup(o, etc) ==
    IF o.exc # "none" THEN o
    ELSE GroupLoop(ReadOrRaise(o, etc.group), etc.group.lines)

ParseShadow(o, etc) ==
    IF o.exc # "none" THEN o
    ELSE ShadowLoop(ReadOrRaise(o, etc.shadow), etc.shadow.lines)

\* os.path.exists(self.subuidFile) is false: nothing is read
ParseSubUid(o, etc) ==
    IF o.exc # "none" \/ ~etc.subuid.exists THEN o ELSE SubUidLoop(o, etc.subuid.lines)

ParseSubGid(o, etc) ==
    IF o.exc # "none" \/ ~etc.subgid.exists THEN o ELSE SubGidLoop(o, etc.subgid.lines)

\* the parsing block of __init__
Parse(etc) ==
    ParseSubGid(
      ParseSubUid(
        ParseShadow(
          ParseGroup(
            ParsePasswd(NewObject(etc.loginDefs), etc), etc), etc), etc), etc)

\* ------------------------------------------------------------------------
\* Verification.  Each check is the name of the exception it raises, "none"
\* if it passes; a stage raises the first one in the order of the code.

\* the first exception of a list of checks
RECURSIVE FirstExc(_)
FirstExc(excs) ==
    IF excs = <<>> THEN "none"
    ELSE IF Head(excs) # "none" THEN Head(excs)
    ELSE FirstExc(Tail(excs))

\* _verifyStage1, the body of "for uname in self.normalUserList"
Stage1NormalUser(o, uname) ==
    IF uname \notin DOMAIN o.pwdDict THEN "KeyError"
    ELSE IF ~(o.uidMin <= o.pwdDict[uname].pw_uid /\ o.pwdDict[uname].pw_uid < o.uidMax)
         THEN "PgsFormatError"
    ELSE IF uname \notin DOMAIN o.grpDict THEN "KeyError"
    ELSE IF o.pwdDict[uname].pw_uid # o.grpDict[uname].gr_gid THEN "PgsFormatError"
    ELSE IF uname \notin DOMAIN o.shDict THEN "KeyError"
    ELSE IF Len(o.shDict[uname].sh_encpwd) <= 4 THEN "PgsFormatError"
    ELSE "none"

\* _verifyStage1, the body of "for gname in self.standAloneGroupList"
Stage1StandAloneGroup(o, gname) ==
    IF gname \notin DOMAIN o.grpDict THEN "KeyError"
    ELSE IF ~(o.gidMin <= o.grpDict[gname].gr_gid /\ o.grpDict[gname].gr_gid < o.gidMax)
         THEN "PgsFormatError"
    ELSE "none"

VerifyStage1(o) ==
    FirstExc(
      << IF ListSet(o.systemUserList) # ListSet(StdSystemUserList)
           THEN "PgsFormatError" ELSE "none" >>
      \o [i \in 1..Len(o.systemUserList) |->
            IF o.systemUserList[i] \notin DOMAIN o.shDict THEN "PgsFormatError" ELSE "none"]
      \o [i \in 1..Len(o.normalUserList) |-> Stage1NormalUser(o, o.normalUserList[i])]
      \o << IF ListSet(o.systemGroupList) # ListSet(StdSystemGroupList)
              THEN "PgsFormatError" ELSE "none",
            IF ListSet(o.perUserGroupList) # ListSet(o.normalUserList)
              THEN "PgsFormatError" ELSE "none" >>
      \o [i \in 1..Len(o.standAloneGroupList) |->
            Stage1StandAloneGroup(o, o.standAloneGroupList[i])])

IsSorted(nums) == \A i \in 1..(Len(nums) - 1) : nums[i] <= nums[i + 1]

\* a Python slice s[i:i + n] (i counted from 0), clipped to the list
Slice(s, i, n) ==
    SubSeq(s, i + 1, IF i + n > Len(s) THEN Len(s) ELSE i + n)

\* "list of names != list"
KeysMissing(names, d) == \E i \in 1..Len(names) : names[i] \notin DOMAIN d

\* _verifyStage2, "check system user list"
Stage2SystemUsers(o) ==
    IF o.systemUserList # StdSystemUserList THEN "PgsFormatError"
    ELSE FirstExc([i \in 1..Len(o.systemUserList) |->
                     IF o.systemUserList[i] \notin DOMAIN o.pwdDict THEN "KeyError"
                     ELSE IF o.pwdDict[o.systemUserList[i]].pw_gecos # ""
                          THEN "PgsFormatError"
                     ELSE "none"])

\* _verifyStage2, "check normal user list"
Stage2NormalUsers(o) ==
    IF KeysMissing(o.normalUserList, o.pwdDict) THEN "KeyError"
    ELSE IF ~IsSorted([i \in 1..Len(o.normalUserList) |->
                         o.pwdDict[o.normalUserList[i]].pw_uid]) THEN "PgsFormatError"
    ELSE IF \E i \in 1..Len(o.normalUserList) :
              o.pwdDict[o.normalUserList[i]].pw_gecos # "" THEN "PgsFormatError"
    ELSE "none"

\* _verifyStage2, "check software user list"
Stage2SoftwareUsers(o) ==
    FirstExc([i \in 1..Len(o.softwareUserList) |->
                IF o.softwareUserList[i] \notin DOMAIN o.pwdDict THEN "KeyError"
                ELSE IF \/ o.pwdDict[o.softwareUserList[i]].pw_uid >= o.uidMin
                        \/ o.pwdDict[o.softwareUserList[i]].pw_shell # "/sbin/nologin"
                        \/ o.softwareUserList[i] \in DOMAIN o.shDict
                     THEN "PgsFormatError"
                ELSE "none"])

\* _verifyStage2, "check stand-alone group list" and "check software group list"
Stage2Groups(o) ==
    IF KeysMissing(o.standAloneGroupList, o.grpDict) THEN "KeyError"
    ELSE IF ~IsSorted([i \in 1..Len(o.standAloneGroupList) |->
                         o.grpDict[o.standAloneGroupList[i]].gr_gid]) THEN "PgsFormatError"
    ELSE FirstExc([i \in 1..Len(o.softwareGroupList) |->
                     IF o.softwareGroupList[i] \notin DOMAIN o.grpDict THEN "KeyError"
                     ELSE IF o.grpDict[o.softwareGroupList[i]].gr_gid >= o.gidMin
                          THEN "PgsFormatError"
                     ELSE "none"])

\* _verifyStage2, "check secondary groups for root" and "check secondary groups dict"
Stage2SecondaryGroups(o) ==
    IF "root" \in DOMAIN o.secondaryGroupsDict THEN "PgsFormatError"
    ELSE IF \E uname \in DOMAIN o.secondaryGroupsDict :
              /\ InList(uname, o.systemUserList \o o.normalUserList \o o.softwareUserList)
              /\ \E i \in 1..Len(o.secondaryGroupsDict[uname]) :
                    InList(o.secondaryGroupsDict[uname][i], o.deprecatedGroupList)
         THEN "PgsFormatError"
    ELSE "none"

\* _verifyStage2, "check group member field"
Stage2MemberFields(o) ==
    IF \E gname \in DOMAIN o.grpDict :
         o.grpDict[gname].gr_mem # JoinTokens(NonEmptyTokens(o.grpDict[gname].gr_mem))
    THEN "PgsFormatError" ELSE "none"

\* _verifyStage2, "check /etc/shadow" and "check /etc/gshadow"
Stage2Shadow(o, etc) ==
    LET n1 == Len(o.systemUserList)
        n2 == Len(o.normalUserList)
    IN  IF o.systemUserList # Slice(o.shadowEntryList, 0, n1) THEN "PgsFormatError"
        ELSE IF o.normalUserList # Slice(o.shadowEntryList, n1, n2) THEN "PgsFormatError"
        ELSE IF n1 + n2 # Len(o.shadowEntryList) THEN "PgsFormatError"
        ELSE IF ~etc.gshadow.exists THEN "FileNotFoundError"
        ELSE IF Len(etc.gshadow.lines) > 0 THEN "PgsFormatError"
        ELSE "none"

\* _verifyStage2, the checks of one subordinate-id dict
Stage2SubRanges(d, min, max, count) ==
    IF \E uname \in DOMAIN d :
         \/ ~(min <= d[uname].start /\ d[uname].start < max)
         \/ (d[uname].start - min) % count # 0
         \/ d[uname].count # count
    THEN "PgsFormatError" ELSE "none"

\* _verifyStage2, "check subuid entry list" to the end
Stage2SubIds(o) ==
    LET n1 == Len(o.normalUserList)
        n2 == Len(o.softwareUserList)
    IN  IF o.normalUserList # Slice(o.subUidEntryList, 0, n1) THEN "PgsFormatError"
        ELSE IF o.softwareUserList # Slice(o.subUidEntryList, n1, n2) THEN "PgsFormatError"
        ELSE IF n1 + n2 # Len(o.subUidEntryList) THEN "PgsFormatError"
        ELSE IF Stage2SubRanges(o.subUidDict, o.subUidMin, o.subUidMax, o.subUidCount)
                  # "none" THEN "PgsFormatError"
        ELSE IF o.subUidEntryList # o.subGidEntryList THEN "PgsFormatError"
        ELSE Stage2SubRanges(o.subGidDict, o.subGidMin, o.subGidMax, o.subGidCount)

VerifyStage2(o, etc) ==
    FirstExc(<< Stage2SystemUsers(o), Stage2NormalUsers(o), Stage2SoftwareUsers(o),
                Stage2Groups(o), Stage2SecondaryGroups(o), Stage2MemberFields(o),
                Stage2Shadow(o, etc), Stage2SubIds(o) >>)

\* verify(): stage 1, then stage 2
Verify(o, etc) == FirstExc(<<VerifyStage1(o), VerifyStage2(o, etc)>>)

\* ------------------------------------------------------------------------
\* Mutation API.  Each operator maps the object before the call to the
\* object when the call ends, with exc the exception the call raised.

UidValues(o) == {o.pwdDict[k].pw_uid : k \in DOMAIN o.pwdDict}

GidValues(o) == {o.grpDict[k].gr_gid : k \in DOMAIN o.grpDict}

\* the id loop without its second test: ids of groups are not looked at
RECURSIVE GenerateUidIgnoringGids(_, _)
GenerateUidIgnoringGids(o, newUid) ==
    IF newUid >= 10000 THEN -1
    ELSE IF newUid \in UidValues(o) THEN GenerateUidIgnoringGids(o, newUid + 1)
    ELSE newUid

\* the id loop stepping by two when the candidate is the id of a group
RECURSIVE GenerateUidSkipping(_, _)
GenerateUidSkipping(o, newUid) ==
    IF newUid >= 10000 THEN -1
    ELSE IF newUid \in UidValues(o) THEN GenerateUidSkipping(o, newUid + 1)
    ELSE IF newUid \in GidValues(o) THEN GenerateUidSkipping(o, newUid + 2)
    ELSE newUid

\* addNormalUser, "generate user id": the while loop from newUid on;
\* -1 stands for the raise of PgsAddUserError
RECURSIVE GenerateUid(_, _)
GenerateUid(o, newUid) ==
    IF newUid >= 10000 THEN -1
    ELSE IF newUid \in UidValues(o) THEN GenerateUid(o, newUid + 1)
    ELSE IF newUid \in GidValues(o) THEN GenerateUid(o, newUid + 1)
    ELSE newUid

\* the range loop taking the highest start in place of the highest end
RangeTopOfStarts(d, min) ==
    LET starts == {d[k].start : k \in DOMAIN d} \cup {min}
    IN  CHOOSE m \in starts : \A e \in starts : e <= m

\* "m = min; for obj in d.values(): m = max(obj.start + obj.count, m)"
RangeTop(d, min) ==
    LET ends == {d[k].start + d[k].count : k \in DOMAIN d} \cup {min}
    IN  CHOOSE m \in ends : \A e \in ends : e <= m

AddNormalUser(o, username, password) ==
    IF username \in DOMAIN o.pwdDict \/ username \in DOMAIN o.grpDict
    THEN Raise(o, "AssertionError")
    ELSE LET newUid == GenerateUid(o, 1000) IN
         IF newUid = -1 THEN Raise(o, "PgsAddUserError")
         ELSE [o EXCEPT
                 !.pwdDict = DictSet(@, username,
                     PwdEntry(<<username, "x", newUid, newUid, "",
                                HomeDir(username), "/bin/bash">>)),
                 !.normalUserList = IF o.sameList THEN @ \o <<username, username>>
                                    ELSE Append(@, username),
                 !.grpDict = DictSet(@, username, GrpEntry(<<username, "x", newUid, <<"">> >>)),
                 !.perUserGroupList = IF o.sameList
                                      THEN o.normalUserList \o <<username, username>>
                                      ELSE Append(@, username),
                 !.shDict = DictSet(@, username, ShadowEntry(<<username, Encrypt(password)>>)),
                 !.shadowEntryList = Append(@, username),
                 !.subUidDict = DictSet(@, username,
                     SubUidGidEntry(username, RangeTop(o.subUidDict, o.subUidMin),
                                    o.subUidCount)),
                 !.subUidEntryList = Append(@, username),
                 !.subGidDict = DictSet(@, username,
                     SubUidGidEntry(username, RangeTop(o.subGidDict, o.subGidMin),
                                    o.subGidCount)),
                 !.subGidEntryList = Append(@, username)]

\* the member list of one group after "if username in ulist: ulist.remove(...)"
ScrubMember(mem, username) ==
    LET ulist == NonEmptyTokens(mem) IN
    IF InList(username, ulist) THEN JoinTokens(ListRemove(ulist, username)) ELSE mem

\* removeNormalUser, "for gname, entry in self.grpDict.items()"
ScrubFromGroups(grpDict, username) ==
    [g \in DOMAIN grpDict |->
       [grpDict[g] EXCEPT !.gr_mem = ScrubMember(@, username)]]

\* "if name in lst: lst.remove(name); del d[name]" on the fields lst and d,
\* unless the method has raised before it
RemovePair(o, lst, d, name) ==
    IF o.exc # "none" \/ ~InList(name, o[lst]) THEN o
    ELSE IF o.sameList /\ lst \in {"normalUserList", "perUserGroupList"}
         THEN IF name \notin DOMAIN o[d]
              THEN Raise([o EXCEPT !.normalUserList = ListRemove(o[lst], name),
                                   !.perUserGroupList = ListRemove(o[lst], name)],
                         "KeyError")
              ELSE [o EXCEPT !.normalUserList = ListRemove(o[lst], name),
                             !.perUserGroupList = ListRemove(o[lst], name),
                             ![d] = DictDel(@, name)]
    ELSE IF name \notin DOMAIN o[d]
         THEN Raise([o EXCEPT ![lst] = ListRemove(@, name)], "KeyError")
    ELSE [o EXCEPT ![lst] = ListRemove(@, name), ![d] = DictDel(@, name)]

\* removeNormalUser, from "if username in self.secondaryGroupsDict" to the
\* end of the loop over grpDict
ScrubUser(o, username) ==
    IF o.exc # "none" THEN o
    ELSE [o EXCEPT
            !.secondaryGroupsDict = IF username \in DOMAIN @ THEN DictDel(@, username) ELSE @,
            !.grpDict = ScrubFromGroups(@, username)]

RemoveNormalUser(o, username) ==
    RemovePair(
      RemovePair(
        ScrubUser(
          RemovePair(
            RemovePair(
              RemovePair(o, "subGidEntryList", "subGidDict", username),
              "subUidEntryList", "subUidDict", username),
            "shadowEntryList", "shDict", username),
          username),
        "perUserGroupList", "grpDict", username),
      "normalUserList", "pwdDict", username)

JoinableGroups(o) ==
    o.systemGroupList \o o.deviceGroupList \o o.standAloneGroupList \o o.softwareGroupList

\* modifyNormalUser, op == MUSER_JOIN_GROUP
JoinGroup(o, username, groupname) ==
    IF ~InList(groupname, JoinableGroups(o)) THEN Raise(o, "AssertionError")
    ELSE LET glist == IF username \in DOMAIN o.secondaryGroupsDict
                        THEN o.secondaryGroupsDict[username] ELSE <<>>
             o1 == [o EXCEPT !.secondaryGroupsDict =
                       DictSet(@, username,
                               IF InList(groupname, glist) THEN glist
                               ELSE Append(glist, groupname))]
         IN  IF groupname \notin DOMAIN o.grpDict THEN Raise(o1, "KeyError")
             ELSE LET ulist == NonEmptyTokens(o.grpDict[groupname].gr_mem) IN
                  IF InList(username, ulist) THEN o1
                  ELSE [o1 EXCEPT !.grpDict[groupname].gr_mem =
                                      JoinTokens(Append(ulist, username))]

\* leaving that takes the group out of the index entry and keeps the member field
LeaveGroupIndexOnly(o, username, groupname) ==
    IF groupname \notin DOMAIN o.grpDict THEN Raise(o, "KeyError")
    ELSE IF /\ username \in DOMAIN o.secondaryGroupsDict
            /\ InList(groupname, o.secondaryGroupsDict[username])
         THEN [o EXCEPT !.secondaryGroupsDict[username] = ListRemove(@, groupname)]
    ELSE o

\* modifyNormalUser, op == MUSER_LEAVE_GROUP
LeaveGroup(o, username, groupname) ==
    LET o1 == IF /\ username \in DOMAIN o.secondaryGroupsDict
                 /\ InList(groupname, o.secondaryGroupsDict[username])
              THEN [o EXCEPT !.secondaryGroupsDict[username] = ListRemove(@, groupname)]
              ELSE o
    IN  IF groupname \notin DOMAIN o.grpDict THEN Raise(o1, "KeyError")
        ELSE LET ulist == NonEmptyTokens(o.grpDict[groupname].gr_mem) IN
             IF InList(username, ulist)
             THEN [o1 EXCEPT !.grpDict[groupname].gr_mem =
                                 JoinTokens(ListRemove(ulist, username))]
             ELSE o1

\* modifyNormalUser, op == MUSER_SET_PASSWORD
SetPassword(o, username, password) ==
    IF username \notin DOMAIN o.shDict THEN Raise(o, "KeyError")
    ELSE [o EXCEPT !.shDict[username].sh_encpwd = Encrypt(password)]

\* modifyNormalUser with the branch of MUSER_SET_SHELL storing the shell
ModifyNormalUserSettingShell(o, username, op, arg) ==
    IF op = MUSER_SET_SHELL /\ username \in DOMAIN o.pwdDict
    THEN [o EXCEPT !.pwdDict[username].pw_shell = arg]
    ELSE Raise(o, "AssertionError")

ModifyNormalUser(o, username, op, arg) ==
    IF ~InList(username, o.normalUserList) THEN Raise(o, "AssertionError")
    ELSE IF op = MUSER_SET_PASSWORD THEN SetPassword(o, username, arg)
    ELSE IF op = MUSER_SET_SHELL THEN Raise(o, "AssertionError")
    ELSE IF op = MUSER_JOIN_GROUP THEN JoinGroup(o, username, arg)
    ELSE IF op = MUSER_LEAVE_GROUP THEN LeaveGroup(o, username, arg)
    ELSE Raise(o, "AssertionError")

\* addStandAloneGroup.  The loop reads v.grp_gid, an attribute no _GrpEntry
\* has: with any group in grpDict the first pass raises AttributeError.
AddStandAloneGroup(o, groupname) ==
    IF groupname \in DOMAIN o.grpDict THEN Raise(o, "AssertionError")
    ELSE IF DOMAIN o.grpDict # {} THEN Raise(o, "AttributeError")
    ELSE [o EXCEPT !.grpDict = DictSet(@, groupname, GrpEntry(<<groupname, "x", 5000, <<"">> >>)),
                   !.standAloneGroupList = Append(@, groupname)]

\* removeStandAloneGroup, "for glist in self.secondaryGroupsDict.values()"
PurgeGroup(d, groupname) ==
    [u \in DOMAIN d |-> IF InList(groupname, d[u]) THEN ListRemove(d[u], groupname) ELSE d[u]]

RemoveStandAloneGroup(o, groupname) ==
    RemovePair([o EXCEPT !.secondaryGroupsDict = PurgeGroup(@, groupname)],
               "standAloneGroupList", "grpDict", groupname)

\* ------------------------------------------------------------------------
\* _fixate.  The steps run in the order of the code; a failed assert or a
\* failed attribute/key lookup ends the method with the object as the steps
\* before it left it.

\* "for uname in names: self.pwdDict[uname].pw_gecos = ''"
ClearGecos(pwdDict, names) ==
    [u \in DOMAIN pwdDict |->
       IF InList(u, names) THEN [pwdDict[u] EXCEPT !.pw_gecos = ""] ELSE pwdDict[u]]

\* "sort system user list" to "remove shadow entry for software users".
\* Each loop that indexes self.pwdDict[uname] raises KeyError at the first
\* name without record, with the names before it done; the sort computes
\* every key before it changes the list.
FixateUsers(o) ==
    IF ListSet(o.systemUserList) # ListSet(StdSystemUserList) THEN Raise(o, "AssertionError")
    ELSE LET Present(names, d) ==
                 \* the names before the first one that is not a key of d
                 SubSeq(names, 1,
                        Cardinality({i \in 1..Len(names) :
                                       \A j \in 1..i : names[j] \in DOMAIN d}))
             SetShells(d, names) ==
                 [u \in DOMAIN d |->
                    IF InList(u, names) THEN [d[u] EXCEPT !.pw_shell = "/sbin/nologin"]
                    ELSE d[u]]
             o1 == [o EXCEPT !.systemUserList = StdSystemUserList,
                             !.pwdDict = ClearGecos(@, Present(StdSystemUserList, @))]
         IN  IF KeysMissing(StdSystemUserList, o.pwdDict) THEN Raise(o1, "KeyError")
             ELSE IF KeysMissing(o1.normalUserList, o1.pwdDict) THEN Raise(o1, "KeyError")
             ELSE LET sorted == SortByKey(o1.normalUserList,
                                          [u \in DOMAIN o1.pwdDict |-> o1.pwdDict[u].pw_uid])
                      o2 == [o1 EXCEPT
                               !.normalUserList = sorted,
                               !.perUserGroupList = IF o.sameList THEN sorted ELSE @,
                               !.pwdDict = SetShells(ClearGecos(@, sorted),
                                                     Present(o1.softwareUserList, @))]
                  IN  IF KeysMissing(o2.softwareUserList, o2.pwdDict)
                      THEN Raise(o2, "KeyError")
                      ELSE [o2 EXCEPT
                              !.shDict =
                                 [u \in {k \in DOMAIN @ : ~InList(k, o1.softwareUserList)}
                                    |-> @[u]]]

\* "sort stand-alone group list": the key reads self.grpDict[x].pw_gid, an
\* attribute no _GrpEntry has, so the sort raises as soon as the list has
\* an element (list.sort computes every key first and leaves the list as
\* it was when one raises)
SortStandAloneGroups(o) ==
    IF o.standAloneGroupList = <<>> THEN o
    ELSE IF o.standAloneGroupList[1] \notin DOMAIN o.grpDict THEN Raise(o, "KeyError")
    ELSE Raise(o, "AttributeError")

\* "sort system group list" to "sort stand-alone group list"
FixateGroupLists(o) ==
    IF o.exc # "none" THEN o
    ELSE IF ListSet(o.systemGroupList) # ListSet(StdSystemGroupList) THEN Raise(o, "AssertionError")
    ELSE LET o1 == [o EXCEPT !.systemGroupList = StdSystemGroupList] IN
         IF ListSet(o1.perUserGroupList) # ListSet(o1.normalUserList)
         THEN Raise(o1, "AssertionError")
         ELSE SortStandAloneGroups([o1 EXCEPT !.perUserGroupList = o1.normalUserList,
                                              !.sameList = TRUE])

\* "remove root from any secondary group" and "standardize group members"
FixateMembers(o) ==
    IF o.exc # "none" THEN o ELSE
    [o EXCEPT
       !.secondaryGroupsDict = IF "root" \in DOMAIN @ THEN DictDel(@, "root") ELSE @,
       !.grpDict = [g \in DOMAIN @ |->
                      [@[g] EXCEPT !.gr_mem =
                          JoinTokens(NonEmptyTokens(ScrubMember(@, "root")))]]]

\* "sort shadow entry list" and "remove redundant shadow entries"
FixateShadow(o) ==
    IF o.exc # "none" THEN o
    ELSE IF ~(ListSet(o.systemUserList \o o.normalUserList) \subseteq ListSet(o.shadowEntryList))
    THEN Raise(o, "AssertionError")
    ELSE LET entries == o.systemUserList \o o.normalUserList IN
         [o EXCEPT !.shadowEntryList = entries,
                   !.shDict = [u \in (DOMAIN @) \cap ListSet(entries) |-> @[u]]]

\* "add missing sub?id entries": the loop over the entry list from position
\* i on, with m the next free start; the result is the dict and whether the
\* assert m < max failed
RECURSIVE AddMissing(_, _, _, _, _, _)
AddMissing(d, entries, i, m, max, count) ==
    IF i > Len(entries) THEN [dict |-> d, exc |-> "none"]
    ELSE IF entries[i] \in DOMAIN d THEN AddMissing(d, entries, i + 1, m, max, count)
    ELSE IF ~(m < max) THEN [dict |-> d, exc |-> "AssertionError"]
    ELSE AddMissing(DictSet(d, entries[i], SubUidGidEntry(entries[i], m, count)),
                    entries, i + 1, m + count, max, count)

\* "remove redundant sub?id entries", then "add missing sub?id entries"
FixateSubDict(d, entries, min, max, count) ==
    LET kept == [u \in (DOMAIN d) \cap ListSet(entries) |-> d[u]]
    IN  AddMissing(kept, entries, 1, RangeTop(kept, min), max, count)

\* "sort subuid entry list" to "add missing subuid entries"
FixateSubUid(o) ==
    LET entries == o.normalUserList \o o.softwareUserList
        r == FixateSubDict(o.subUidDict, entries, o.subUidMin, o.subUidMax, o.subUidCount)
    IN  IF o.exc # "none" THEN o
        ELSE [o EXCEPT !.subUidEntryList = entries, !.subUidDict = r.dict, !.exc = r.exc]

\* "sort subgid entry list" to "add missing subgid entries"
FixateSubGid(o) ==
    LET entries == o.subUidEntryList
        r == FixateSubDict(o.subGidDict, entries, o.subGidMin, o.subGidMax, o.subGidCount)
    IN  IF o.exc # "none" THEN o
        ELSE [o EXCEPT !.subGidEntryList = entries, !.subGidDict = r.dict, !.exc = r.exc]

\* each step after the first runs only if none before it raised
Fixate(o) ==
    FixateSubGid(FixateSubUid(FixateShadow(FixateMembers(FixateGroupLists(FixateUsers(o))))))

\* ------------------------------------------------------------------------
\* The account files a session is opened on.

Fields(t) == [kind |-> "fields", t |-> t]

Comment == [kind |-> "comment"]

Blank == [kind |-> "blank"]

File(lines) == [exists |-> TRUE, lines |-> lines]

MissingFile == [exists |-> FALSE, lines |-> <<>>]

\* a file as this class writes it: the manage flag, a blank line, the entries
Managed(managed, lines) == File(IF managed THEN <<Comment, Blank>> \o lines ELSE lines)

If(c, lines) == IF c THEN lines ELSE <<>>

HashOf(name) == "$6$salt$hash"

\* login.defs with UID_MIN = GID_MIN = min
LoginDefs(min) ==
    [uidMin |-> min, uidMax |-> 10000, gidMin |-> min, gidMax |-> 10000,
     subUidMin |-> 100000, subUidMax |-> 100000 + 3 * 65536, subUidCount |-> 65536,
     subGidMin |-> 100000, subGidMax |-> 100000 + 3 * 65536, subGidCount |-> 65536]

\* /etc/passwd with nUsers normal users (alice, then bob with the lower uid)
\* and, with extras, a comment on root and the software user ntp, whose
\* password field is "*"; with repeated, the line of alice a second time
PasswdFile(nUsers, extras, repeated) ==
    Managed(extras,
      << Fields(<<"root", "x", 0, 0, IF extras THEN "root" ELSE "", "/root", "/bin/bash">>),
         Fields(<<"nobody", "x", 65534, 65534, "", "/", "/sbin/nologin">>) >>
      \o If(nUsers >= 1,
            <<Fields(<<"alice", "x", 2001, 2001, "Alice", "/home/alice", "/bin/bash">>)>>)
      \o If(nUsers >= 2,
            <<Fields(<<"bob", "x", 2000, 2000, "", "/home/bob", "/bin/bash">>)>>)
      \o If(extras,
            <<Fields(<<"ntp", "*", 123, 123, "NTP", "/var/lib/ntp", "/bin/false">>)>>)
      \o If(repeated /\ nUsers >= 1,
            <<Fields(<<"alice", "x", 2001, 2001, "Alice", "/home/alice", "/bin/bash">>)>>))

\* /etc/group.  groups = 0: the system groups and audio, no members;
\* 1: root listed in wheel and twice in audio, and the group staff (gid 1000);
\* 2: audio with an empty token, staff and the deprecated group adm with members;
\* with repeated, the line of staff a second time
GroupFile(nUsers, extras, groups, repeated) ==
    Managed(extras,
      << Fields(<<"root", "x", 0, <<"">> >>),
         Fields(<<"nobody", "x", 65534, <<"">> >>),
         Fields(<<"nogroup", "x", 65533, <<"">> >>),
         Fields(<<"wheel", "x", 10, IF groups = 1 THEN <<"root">> ELSE <<"">> >>),
         Fields(<<"users", "x", 100, <<"">> >>) >>
      \o If(nUsers >= 1,
            <<Fields(<<"alice", "x", 2001, IF nUsers >= 2 THEN <<"bob">> ELSE <<"">> >>)>>)
      \o If(nUsers >= 2, <<Fields(<<"bob", "x", 2000, <<"">> >>)>>)
      \o << Fields(<<"audio", "x", 18,
                     CASE groups = 0 -> <<"">>
                       [] groups = 1 -> <<"root", "root">>
                       [] OTHER -> <<"alice", "", "ghost">> >>) >>
      \o If(groups = 1, <<Fields(<<"staff", "x", 1000, <<"">> >>)>>)
      \o If(groups = 2, << Fields(<<"staff", "x", 1000, <<"alice">> >>),
                           Fields(<<"adm", "x", 4, <<"alice">> >>) >>)
      \o If(extras, <<Fields(<<"ntp", "x", 123, <<"">> >>)>>)
      \o If(repeated /\ groups = 1, <<Fields(<<"staff", "x", 1000, <<"">> >>)>>)
      \o If(repeated /\ groups = 2, <<Fields(<<"staff", "x", 1000, <<"alice">> >>)>>))

ShadowLine(name, encpwd) == Fields(<<name, encpwd, "", "", "", "", "", "", "">>)

\* /etc/shadow; with extras also an entry for ntp and one for ghost, a name
\* with no passwd entry
ShadowFile(nUsers, extras) ==
    Managed(extras,
      << ShadowLine("root", HashOf("root")), ShadowLine("nobody", "*") >>
      \o If(nUsers >= 1, <<ShadowLine("alice", HashOf("alice"))>>)
      \o If(nUsers >= 2, <<ShadowLine("bob", HashOf("bob"))>>)
      \o If(extras, << ShadowLine("ntp", "!"), ShadowLine("ghost", HashOf("ghost")) >>))

\* /etc/subuid and /etc/subgid.  sub = 0: no file; 1: one block per normal
\* user from the bottom of the range (and one for ghost, with extras);
\* 2: alice alone, in the last block of the range
SubIdFile(nUsers, extras, sub) ==
    IF sub = 0 THEN MissingFile
    ELSE IF sub = 1
    THEN Managed(extras,
           If(nUsers >= 1, <<Fields(<<"alice", 100000, 65536>>)>>)
           \o If(nUsers >= 2, <<Fields(<<"bob", 165536, 65536>>)>>)
           \o If(extras, <<Fields(<<"ghost", 231072, 65536>>)>>))
    ELSE Managed(extras, If(nUsers >= 1, <<Fields(<<"alice", 231072, 65536>>)>>))

EtcFiles(min, nUsers, extras, groups, sub, repeated) ==
    [loginDefs |-> LoginDefs(min),
     passwd |-> PasswdFile(nUsers, extras, repeated),
     group |-> GroupFile(nUsers, extras, groups, repeated),
     shadow |-> ShadowFile(nUsers, extras),
     gshadow |-> File(IF groups = 2 THEN <<Fields(<<"root", "", "", "">>)>> ELSE <<>>),
     subuid |-> SubIdFile(nUsers, extras, sub),
     subgid |-> SubIdFile(nUsers, extras, sub)]

\* files that pass both stages of verification, with the normal users bob
\* and alice in uid order, whose subordinate ranges are one and the same block
SharedBlockFiles(min) ==
    [loginDefs |-> LoginDefs(min),
     passwd |-> File(
       << Fields(<<"root", "x", 0, 0, "", "/root", "/bin/bash">>),
          Fields(<<"nobody", "x", 65534, 65534, "", "/", "/sbin/nologin">>),
          Fields(<<"bob", "x", 2000, 2000, "", "/home/bob", "/bin/bash">>),
          Fields(<<"alice", "x", 2001, 2001, "", "/home/alice", "/bin/bash">>) >>),
     group |-> File(
       << Fields(<<"root", "x", 0, <<"">> >>),
          Fields(<<"nobody", "x", 65534, <<"">> >>),
          Fields(<<"nogroup", "x", 65533, <<"">> >>),
          Fields(<<"wheel", "x", 10, <<"">> >>),
          Fields(<<"users", "x", 100, <<"">> >>),
          Fields(<<"bob", "x", 2000, <<"">> >>),
          Fields(<<"alice", "x", 2001, <<"">> >>),
          Fields(<<"audio", "x", 18, <<"alice">> >>) >>),
     shadow |-> File(
       << ShadowLine("root", HashOf("root")), ShadowLine("nobody", "*"),
          ShadowLine("bob", HashOf("bob")), ShadowLine("alice", HashOf("alice")) >>),
     gshadow |-> File(<<>>),
     subuid |-> File(<< Fields(<<"bob", 100000, 65536>>),
                        Fields(<<"alice", 100000, 65536>>) >>),
     subgid |-> File(<< Fields(<<"bob", 100000, 65536>>),
                        Fields(<<"alice", 100000, 65536>>) >>)]

\* files with the user alice and no /etc/gshadow
NoGroupShadowFiles(min) ==
    [EtcFiles(min, 1, FALSE, 1, 0, FALSE) EXCEPT !.gshadow = MissingFile]

\* the files without repeated names, some with a user and a group name on
\* two lines, the files with a shared block and the files without gshadow
InputFiles ==
    {EtcFiles(min, nUsers, extras, groups, sub, FALSE) :
       min \in {1000, 2000}, nUsers \in 0..2, extras \in BOOLEAN,
       groups \in 0..2, sub \in 0..2}
    \cup {EtcFiles(min, nUsers, FALSE, groups, 1, TRUE) :
            min \in {1000, 2000}, nUsers \in 1..2, groups \in 1..2}
    \cup {SharedBlockFiles(min) : min \in {1000, 2000}}
    \cup {NoGroupShadowFiles(min) : min \in {1000, 2000}}

\* Files that probe the classification and stage 1: root (with uid rootUid)
\* and nobody, one more user uname with uid = gid = uid, a group of its name
\* with gid pgid (none if pgid = 0), a shadow entry for it with the hash
\* hash (none if hash = "none"), and one more group gname with gid gid.
\* With broken, the last line of passwd has six fields.
ProbeFiles(rootUid, uname, uid, pgid, hash, gname, gid, broken) ==
    [loginDefs |-> LoginDefs(1000),
     passwd |-> File(
       << Fields(<<"root", "x", rootUid, 0, "", "/root", "/bin/bash">>),
          Fields(<<"nobody", "x", 65534, 65534, "", "/", "/sbin/nologin">>),
          Fields(<<uname, "x", uid, uid, "", "/home/probe", "/bin/bash">>) >>
       \o If(broken, <<Fields(<<"eve", "x", 3000, 3000, "", "/home/eve">>)>>)),
     group |-> File(
       << Fields(<<"root", "x", 0, <<"">> >>),
          Fields(<<"nobody", "x", 65534, <<"">> >>),
          Fields(<<"nogroup", "x", 65533, <<"">> >>),
          Fields(<<"wheel", "x", 10, <<"">> >>),
          Fields(<<"users", "x", 100, <<"">> >>) >>
       \o If(pgid # 0, <<Fields(<<uname, "x", pgid, <<"">> >>)>>)
       \o <<Fields(<<gname, "x", gid, <<uname>> >>)>>),
     shadow |-> File(
       << ShadowLine("root", HashOf("root")), ShadowLine("nobody", "*") >>
       \o If(hash # "none", <<ShadowLine(uname, hash)>>)),
     gshadow |-> File(<<>>),
     subuid |-> MissingFile,
     subgid |-> MissingFile]

ProbeUserNames == {"dave", "adm", "lp"}

ProbeGroupNames == {"video", "sys", "users", "staff"}

\* ids below, inside and at the top end of the range of login.defs
ProbeIds == {500, 1500, 10000}

ProbeHashes == {"none", "!", "$6$salt$hash"}

\* the probes: each of the users with each of the groups, and for the user
\* dave every combination of per-user group, shadow entry, uid of root and
\* broken last line
ProbeInputs ==
    {ProbeFiles(0, uname, uid, uid, "$6$salt$hash", gname, gid, FALSE) :
       uname \in ProbeUserNames, uid \in ProbeIds,
       gname \in ProbeGroupNames, gid \in ProbeIds}
    \cup {ProbeFiles(rootUid, "dave", 1500, pgid, hash, "video", 500, broken) :
            rootUid \in {0, 1500}, pgid \in {0, 1500, 1501},
            hash \in ProbeHashes, broken \in BOOLEAN}

\* the files a session is constructed on
OpenFiles == InputFiles \cup ProbeInputs

\* ------------------------------------------------------------------------
\* The writers.  A line is written as the fields that line.split(":") gives
\* back when the file is read again.  w is the disk: the files of etc, their
\* backup copies (name + "-") and the exception a writer has raised.

\* _pwd2str: the password field is written as "x"
Pwd2Str(e) ==
    Fields(<<e.pw_name, "x", e.pw_uid, e.pw_gid, e.pw_gecos, e.pw_dir, e.pw_shell>>)

\* _grp2str: the password field is written as "x"
Grp2Str(e) == Fields(<<e.gr_name, "x", e.gr_gid, e.gr_mem>>)

\* _sh2str: name, hash and seven empty fields
Sh2Str(e) == Fields(<<e.sh_name, e.sh_encpwd, "", "", "", "", "", "", "">>)

\* _subuidgid2str
SubUidGid2Str(e) == Fields(<<e.name, e.start, e.count>>)

EntryLine(kind, e) ==
    CASE kind = "passwd" -> Pwd2Str(e)
      [] kind = "group" -> Grp2Str(e)
      [] kind = "shadow" -> Sh2Str(e)
      [] OTHER -> SubUidGid2Str(e)

\* "for name in names: f.write(str(d[name])); f.write("\n")": the lines
\* written before a name without record raises KeyError
RECURSIVE WriteEntries(_, _, _)
WriteEntries(names, d, kind) ==
    IF names = <<>> \/ Head(names) \notin DOMAIN d THEN <<>>
    ELSE <<EntryLine(kind, d[Head(names)])>> \o WriteEntries(Tail(names), d, kind)

\* the loops of one writer over its lists, with f.write("\n") between them
RECURSIVE WriteSections(_, _, _)
WriteSections(lists, d, kind) ==
    IF lists = <<>> THEN <<>>
    ELSE WriteEntries(Head(lists), d, kind)
         \o IF KeysMissing(Head(lists), d) \/ Len(lists) = 1 THEN <<>>
            ELSE <<Blank>> \o WriteSections(Tail(lists), d, kind)

\* some list of the writer names a record that does not exist
RaisesKeyError(lists, d) == \E i \in 1..Len(lists) : KeysMissing(lists[i], d)

\* a writer that overwrites the file first and copies it to the backup after
RewriteThenBackup(w, name, lists, d) ==
    IF w.exc # "none" THEN w
    ELSE IF ~w.etc[name].exists THEN [w EXCEPT !.exc = "FileNotFoundError"]
    ELSE [w EXCEPT
            !.backup[name] = File(<<Comment, Blank>> \o WriteSections(lists, d, name)),
            !.etc[name] = File(<<Comment, Blank>> \o WriteSections(lists, d, name)),
            !.exc = IF RaisesKeyError(lists, d) THEN "KeyError" ELSE "none"]

\* shutil.copy2(file, file + "-"), then the file rewritten: the manage flag,
\* an empty line and the sections
Rewrite(w, name, lists, d) ==
    IF w.exc # "none" THEN w
    ELSE IF ~w.etc[name].exists THEN [w EXCEPT !.exc = "FileNotFoundError"]
    ELSE [w EXCEPT
            !.backup[name] = w.etc[name],
            !.etc[name] = File(<<Comment, Blank>> \o WriteSections(lists, d, name)),
            !.exc = IF RaisesKeyError(lists, d) THEN "KeyError" ELSE "none"]

WritePasswd(o, w) ==
    Rewrite(w, "passwd",
            <<o.systemUserList, o.normalUserList, o.softwareUserList, o.deprecatedUserList>>,
            o.pwdDict)

WriteGroup(o, w) ==
    Rewrite(w, "group",
            <<o.systemGroupList, o.perUserGroupList, o.standAloneGroupList,
              o.deviceGroupList, o.softwareGroupList, o.deprecatedGroupList>>,
            o.grpDict)

WriteShadow(o, w) == Rewrite(w, "shadow", <<o.shadowEntryList>>, o.shDict)

\* _writeGroupShadow: the copy, then the file truncated
WriteGroupShadow(o, w) ==
    IF w.exc # "none" THEN w
    ELSE IF ~w.etc.gshadow.exists THEN [w EXCEPT !.exc = "FileNotFoundError"]
    ELSE [w EXCEPT !.backup.gshadow = w.etc.gshadow, !.etc.gshadow = File(<<>>)]

\* _writeSubUid and _writeSubGid: the copy only "if os.path.exists(...)"
RewriteSub(w, name, entries, d) ==
    IF w.exc # "none" THEN w
    ELSE [w EXCEPT
            !.backup[name] = IF w.etc[name].exists THEN w.etc[name] ELSE @,
            !.etc[name] = File(<<Comment, Blank>> \o WriteEntries(entries, d, name)),
            !.exc = IF KeysMissing(entries, d) THEN "KeyError" ELSE "none"]

WriteSubUid(o, w) == RewriteSub(w, "subuid", o.subUidEntryList, o.subUidDict)

WriteSubGid(o, w) == RewriteSub(w, "subgid", o.subGidEntryList, o.subGidDict)

\* no file has a backup copy
NoBackups ==
    [passwd |-> MissingFile, group |-> MissingFile, shadow |-> MissingFile,
     gshadow |-> MissingFile, subuid |-> MissingFile, subgid |-> MissingFile]

\* the six writers in the order of close()
WriteAll(o, w) ==
    WriteSubGid(o, WriteSubUid(o, WriteGroupShadow(o,
       WriteShadow(o, WriteGroup(o, WritePasswd(o, w))))))

\* ------------------------------------------------------------------------
\* The session: the attributes of the PasswdGroupShadow object, the files
\* it was opened on, and the call in progress.

VARIABLES
    uidMin, uidMax, gidMin, gidMax,
    subUidMin, subUidMax, subUidCount, subGidMin, subGidMax, subGidCount,
    systemUserList, normalUserList, softwareUserList, deprecatedUserList, pwdDict,
    systemGroupList, deviceGroupList, perUserGroupList, standAloneGroupList,
    softwareGroupList, deprecatedGroupList, secondaryGroupsDict, grpDict,
    shadowEntryList, shDict, subUidEntryList, subUidDict, subGidEntryList, subGidDict,
    sameList,   \* self.perUserGroupList is self.normalUserList
    etc,        \* the files under dirPrefix/etc
    pc,         \* "open", or how far close() has come
    call,       \* the last call made on the object and its arguments
    exc,        \* the exception that call raised, "none" if it returned
    nCalls,     \* the number of calls made on the open session
    readOnly,   \* self.readOnly
    lockFd,     \* self.lockFd: "none" or "fd", the open descriptor of the sentinel
    lockFile,   \* etc/.pwd.lock: whether it exists and who holds the lock on it
    backup,     \* the backup copies the writers made: etc/passwd- and so on
    hasClock,   \* the interpreter has time.clock (it was removed in Python 3.8)
    peer        \* a session of another process on the same directory: how
                \* far it has come, its lockFd, its object, what it raised

limits ==
    <<uidMin, uidMax, gidMin, gidMax,
      subUidMin, subUidMax, subUidCount, subGidMin, subGidMax, subGidCount>>

db ==
    <<systemUserList, normalUserList, softwareUserList, deprecatedUserList, pwdDict,
      systemGroupList, deviceGroupList, perUserGroupList, standAloneGroupList,
      softwareGroupList, deprecatedGroupList, secondaryGroupsDict, grpDict,
      shadowEntryList, shDict, subUidEntryList, subUidDict, subGidEntryList, subGidDict,
      sameList>>

locks == <<readOnly, lockFd, lockFile, hasClock, peer>>

vars == <<limits, db, etc, pc, call, exc, nCalls, locks, backup>>

\* the object as a record
Self ==
    [uidMin |-> uidMin, uidMax |-> uidMax, gidMin |-> gidMin, gidMax |-> gidMax,
     subUidMin |-> subUidMin, subUidMax |-> subUidMax, subUidCount |-> subUidCount,
     subGidMin |-> subGidMin, subGidMax |-> subGidMax, subGidCount |-> subGidCount,
     systemUserList |-> systemUserList, normalUserList |-> normalUserList,
     softwareUserList |-> softwareUserList, deprecatedUserList |-> deprecatedUserList,
     pwdDict |-> pwdDict,
     systemGroupList |-> systemGroupList, deviceGroupList |-> deviceGroupList,
     perUserGroupList |-> perUserGroupList, standAloneGroupList |-> standAloneGroupList,
     softwareGroupList |-> softwareGroupList, deprecatedGroupList |-> deprecatedGroupList,
     secondaryGroupsDict |-> secondaryGroupsDict, grpDict |-> grpDict,
     shadowEntryList |-> shadowEntryList, shDict |-> shDict,
     subUidEntryList |-> subUidEntryList, subUidDict |-> subUidDict,
     subGidEntryList |-> subGidEntryList, subGidDict |-> subGidDict,
     sameList |-> sameList,
     exc |-> "none"]

\* the attributes of the object become those of o
Becomes(o) ==
    /\ systemUserList' = o.systemUserList
    /\ normalUserList' = o.normalUserList
    /\ softwareUserList' = o.softwareUserList
    /\ deprecatedUserList' = o.deprecatedUserList
    /\ pwdDict' = o.pwdDict
    /\ systemGroupList' = o.systemGroupList
    /\ deviceGroupList' = o.deviceGroupList
    /\ perUserGroupList' = o.perUserGroupList
    /\ standAloneGroupList' = o.standAloneGroupList
    /\ softwareGroupList' = o.softwareGroupList
    /\ deprecatedGroupList' = o.deprecatedGroupList
    /\ secondaryGroupsDict' = o.secondaryGroupsDict
    /\ grpDict' = o.grpDict
    /\ shadowEntryList' = o.shadowEntryList
    /\ shDict' = o.shDict
    /\ subUidEntryList' = o.subUidEntryList
    /\ subUidDict' = o.subUidDict
    /\ subGidEntryList' = o.subGidEntryList
    /\ subGidDict' = o.subGidDict
    /\ sameList' = o.sameList
    /\ exc' = o.exc

\* __init__ returns: login.defs is accepted, the files parse to o without
\* error and o passes stage 1
Opens(files, o) ==
    /\ ParseLoginDefOK(files.loginDefs)
    /\ o.exc = "none"
    /\ VerifyStage1(o) = "none"

NoCall == [op |-> "__init__", name |-> "", mop |-> 0, arg |-> ""]

\* every session treated as a writable one
AlwaysWritable == TRUE

\* "if not self.readOnly": the session locks at __init__ and writes at close()
Writable == ~readOnly

Init ==
    \E files \in InputFiles :
       /\ etc = files
       /\ \E o \in {Parse(files)} :
          /\ Opens(files, o)
          /\ uidMin = o.uidMin /\ uidMax = o.uidMax
          /\ gidMin = o.gidMin /\ gidMax = o.gidMax
          /\ subUidMin = o.subUidMin /\ subUidMax = o.subUidMax
          /\ subUidCount = o.subUidCount
          /\ subGidMin = o.subGidMin /\ subGidMax = o.subGidMax
          /\ subGidCount = o.subGidCount
          /\ systemUserList = o.systemUserList
          /\ normalUserList = o.normalUserList
          /\ softwareUserList = o.softwareUserList
          /\ deprecatedUserList = o.deprecatedUserList
          /\ pwdDict = o.pwdDict
          /\ systemGroupList = o.systemGroupList
          /\ deviceGroupList = o.deviceGroupList
          /\ perUserGroupList = o.perUserGroupList
          /\ standAloneGroupList = o.standAloneGroupList
          /\ softwareGroupList = o.softwareGroupList
          /\ deprecatedGroupList = o.deprecatedGroupList
          /\ secondaryGroupsDict = o.secondaryGroupsDict
          /\ grpDict = o.grpDict
          /\ shadowEntryList = o.shadowEntryList
          /\ shDict = o.shDict
          /\ subUidEntryList = o.subUidEntryList
          /\ subUidDict = o.subUidDict
          /\ subGidEntryList = o.subGidEntryList
          /\ subGidDict = o.subGidDict
          /\ sameList = o.sameList
       /\ pc = "open"
       /\ call = NoCall
       /\ exc = "none"
       /\ nCalls = 0
       /\ readOnly \in BOOLEAN
       /\ hasClock = TRUE
       /\ lockFd = IF Writable THEN "fd" ELSE "none"
       /\ lockFile = IF Writable THEN [exists |-> TRUE, holder |-> "self"]
                     ELSE [exists |-> FALSE, holder |-> "none"]
       /\ backup = NoBackups
       /\ peer = [pc |-> "absent", lockFd |-> "none", exc |-> "none",
                  obj |-> NewObject(files.loginDefs)]

\* the number of mutation calls a session makes
MaxCalls == 2

AddNames == {"bob", "carol"}

RemoveNames == {"alice", "bob", "root", "ghost"}

ModifyNames == {"alice", "bob"}

GroupArgs == {"audio", "staff", "alice", "adm"}

ShellArgs == {"/bin/sh", "/sbin/nologin"}

NewGroupNames == {"staff", "video"}

RemoveGroupNames == {"staff", "audio", "ghost"}

\* a public method is called on the session while self.valid is True: on
\* the open session, or after a close() that raised
Called(c) ==
    /\ pc \in {"open", "closeRaised"}
    /\ nCalls < MaxCalls
    /\ nCalls' = nCalls + 1
    /\ call' = c
    /\ UNCHANGED <<limits, etc, pc, locks, backup>>

addNormalUser ==
    \E username \in AddNames :
       /\ Called([op |-> "addNormalUser", name |-> username, mop |-> 0, arg |-> "pw"])
       /\ Becomes(AddNormalUser(Self, username, "pw"))

removeNormalUser ==
    \E username \in RemoveNames :
       /\ Called([op |-> "removeNormalUser", name |-> username, mop |-> 0, arg |-> ""])
       /\ Becomes(RemoveNormalUser(Self, username))

modifyNormalUser ==
    \E username \in ModifyNames :
       \E a \in ({MUSER_JOIN_GROUP, MUSER_LEAVE_GROUP} \X GroupArgs)
                 \cup {<<MUSER_SET_PASSWORD, "pw">>} \cup ({MUSER_SET_SHELL} \X ShellArgs) :
          /\ Called([op |-> "modifyNormalUser", name |-> username, mop |-> a[1], arg |-> a[2]])
          /\ Becomes(ModifyNormalUser(Self, username, a[1], a[2]))

addStandAloneGroup ==
    \E groupname \in NewGroupNames :
       /\ Called([op |-> "addStandAloneGroup", name |-> groupname, mop |-> 0, arg |-> ""])
       /\ Becomes(AddStandAloneGroup(Self, groupname))

removeStandAloneGroup ==
    \E groupname \in RemoveGroupNames :
       /\ Called([op |-> "removeStandAloneGroup", name |-> groupname, mop |-> 0, arg |-> ""])
       /\ Becomes(RemoveStandAloneGroup(Self, groupname))

\* close() on a session that is not read-only, called on the open session
\* or again after a close() that raised: its first step, self._fixate()
fixate ==
    /\ pc \in {"open", "closeRaised"}
    /\ Writable
    /\ \E o \in {Fixate(Self)} :
          /\ pc' = IF o.exc = "none" THEN "fixated" ELSE "closeRaised"
          /\ Becomes(o)
    /\ call' = [op |-> "_fixate", name |-> "", mop |-> 0, arg |-> ""]
    /\ UNCHANGED <<limits, etc, nCalls, locks, backup>>

\* _fixate applied to the object a completed _fixate left
fixateAgain ==
    /\ pc = "fixated"
    /\ \E o \in {Fixate(Self)} :
          /\ pc' = IF o.exc = "none" THEN "fixatedTwice" ELSE "closeRaised"
          /\ Becomes(o)
    /\ call' = [op |-> "_fixate", name |-> "", mop |-> 0, arg |-> ""]
    /\ UNCHANGED <<limits, etc, nCalls, locks, backup>>

\* verify() on the open session: both stages, on the object and etc/gshadow
verify ==
    /\ Called([op |-> "verify", name |-> "", mop |-> 0, arg |-> ""])
    /\ exc' = Verify(Self, etc)
    /\ UNCHANGED db

\* the disk before a writer of close() runs
Disk == [etc |-> etc, backup |-> backup, exc |-> "none"]

\* a writer of close() leaves the disk w and close() goes on with next
Wrote(w, op, next) ==
    /\ etc' = w.etc
    /\ backup' = w.backup
    /\ exc' = w.exc
    /\ pc' = IF w.exc = "none" THEN next ELSE "closeRaised"
    /\ call' = [op |-> op, name |-> "", mop |-> 0, arg |-> ""]
    /\ UNCHANGED <<limits, db, nCalls, locks>>

\* close(), after self._fixate() returned
writePasswd ==
    /\ pc = "fixated"
    /\ \E w \in {WritePasswd(Self, Disk)} : Wrote(w, "_writePasswd", "_writeGroup")

writeGroup ==
    /\ pc = "_writeGroup"
    /\ \E w \in {WriteGroup(Self, Disk)} : Wrote(w, "_writeGroup", "_writeShadow")

writeShadow ==
    /\ pc = "_writeShadow"
    /\ \E w \in {WriteShadow(Self, Disk)} : Wrote(w, "_writeShadow", "_writeGroupShadow")

writeGroupShadow ==
    /\ pc = "_writeGroupShadow"
    /\ \E w \in {WriteGroupShadow(Self, Disk)} :
          Wrote(w, "_writeGroupShadow", "_writeSubUid")

writeSubUid ==
    /\ pc = "_writeSubUid"
    /\ \E w \in {WriteSubUid(Self, Disk)} : Wrote(w, "_writeSubUid", "_writeSubGid")

writeSubGid ==
    /\ pc = "_writeSubGid"
    /\ \E w \in {WriteSubGid(Self, Disk)} : Wrote(w, "_writeSubGid", "_unlockPwd")

\* close(): self._unlockPwd(), then self.valid = False
unlockPwd ==
    /\ pc = "_unlockPwd"
    /\ lockFd # "none"
    /\ lockFd' = "none"
    /\ lockFile' = [lockFile EXCEPT !.holder = "none"]
    /\ pc' = "closed"
    /\ call' = [op |-> "_unlockPwd", name |-> "", mop |-> 0, arg |-> ""]
    /\ exc' = "none"
    /\ UNCHANGED <<limits, db, etc, nCalls, readOnly, hasClock, backup, peer>>

\* close() on a read-only session: self.valid = False and nothing else
closeReadOnly ==
    /\ pc = "open"
    /\ ~Writable
    /\ pc' = "closed"
    /\ call' = [op |-> "close", name |-> "", mop |-> 0, arg |-> ""]
    /\ exc' = "none"
    /\ UNCHANGED <<limits, db, etc, nCalls, locks, backup>>

Next ==
    \/ addNormalUser
    \/ removeNormalUser
    \/ modifyNormalUser
    \/ addStandAloneGroup
    \/ removeStandAloneGroup
    \/ verify
    \/ fixate
    \/ fixateAgain
    \/ writePasswd
    \/ writeGroup
    \/ writeShadow
    \/ writeGroupShadow
    \/ writeSubUid
    \/ writeSubGid
    \/ unlockPwd
    \/ closeReadOnly

Spec == Init /\ [][Next]_vars

\* ------------------------------------------------------------------------
\* The constructor of a session, from the end of _parseLoginDef: _lockPwd
\* step by step, another process that takes and releases the lock, and the
\* parsing block.

\* the attributes of the object are those of o
Attributes(o) ==
    /\ uidMin = o.uidMin /\ uidMax = o.uidMax
    /\ gidMin = o.gidMin /\ gidMax = o.gidMax
    /\ subUidMin = o.subUidMin /\ subUidMax = o.subUidMax
    /\ subUidCount = o.subUidCount
    /\ subGidMin = o.subGidMin /\ subGidMax = o.subGidMax
    /\ subGidCount = o.subGidCount
    /\ systemUserList = o.systemUserList
    /\ normalUserList = o.normalUserList
    /\ softwareUserList = o.softwareUserList
    /\ deprecatedUserList = o.deprecatedUserList
    /\ pwdDict = o.pwdDict
    /\ systemGroupList = o.systemGroupList
    /\ deviceGroupList = o.deviceGroupList
    /\ perUserGroupList = o.perUserGroupList
    /\ standAloneGroupList = o.standAloneGroupList
    /\ softwareGroupList = o.softwareGroupList
    /\ deprecatedGroupList = o.deprecatedGroupList
    /\ secondaryGroupsDict = o.secondaryGroupsDict
    /\ grpDict = o.grpDict
    /\ shadowEntryList = o.shadowEntryList
    /\ shDict = o.shDict
    /\ subUidEntryList = o.subUidEntryList
    /\ subUidDict = o.subUidDict
    /\ subGidEntryList = o.subGidEntryList
    /\ subGidDict = o.subGidDict
    /\ sameList = o.sameList

\* etc/.pwd.lock before the session: absent, free, or locked by another process
LockFiles ==
    {[exists |-> FALSE, holder |-> "none"],
     [exists |-> TRUE, holder |-> "none"],
     [exists |-> TRUE, holder |-> "other"]}

\* __init__ has set the attributes and _parseLoginDef has returned
LockInit ==
    \E files \in OpenFiles :
       /\ etc = files
       /\ ParseLoginDefOK(files.loginDefs)
       /\ Attributes(NewObject(files.loginDefs))
       /\ pc = "__init__"
       /\ call = NoCall
       /\ exc = "none"
       /\ nCalls = 0
       /\ readOnly \in BOOLEAN
       /\ hasClock \in BOOLEAN
       /\ lockFd = "none"
       /\ lockFile \in LockFiles
       /\ backup = NoBackups
       /\ peer = [pc |-> "absent", lockFd |-> "none", exc |-> "none",
                  obj |-> NewObject(files.loginDefs)]

\* the "except:" of _lockPwd: os.close(self.lockFd), self.lockFd = None, raise
LockRaises(e) ==
    /\ lockFd' = "none"
    /\ exc' = e
    /\ pc' = "initRaised"

\* _lockPwd: os.open(self.lockFile, O_WRONLY | O_CREAT | O_CLOEXEC)
lockOpen ==
    /\ pc = "__init__"
    /\ Writable
    /\ lockFd = "none"
    /\ lockFd' = "fd"
    /\ lockFile' = [lockFile EXCEPT !.exists = TRUE]
    /\ pc' = "_lockPwd.clock"
    /\ UNCHANGED <<limits, db, etc, call, exc, nCalls, readOnly, hasClock, backup, peer>>

\* _lockPwd: t = time.clock(), and the first test of the while loop, which
\* passes as no time has gone by
lockClock ==
    /\ pc = "_lockPwd.clock"
    /\ IF hasClock
       THEN pc' = "_lockPwd.lockf" /\ UNCHANGED <<lockFd, exc>>
       ELSE LockRaises("AttributeError")
    /\ UNCHANGED <<limits, db, etc, call, nCalls, readOnly, hasClock, lockFile, backup, peer>>

\* _lockPwd: fcntl.lockf(LOCK_EX | LOCK_NB).  It returns with the lock, or
\* raises IOError while another process holds it; the handler then reads
\* errno.EACCESS, a name the errno module does not have
lockf ==
    /\ pc = "_lockPwd.lockf"
    /\ IF lockFile.holder = "none"
       THEN /\ lockFile' = [lockFile EXCEPT !.holder = "self"]
            /\ pc' = "_parsePasswd"
            /\ UNCHANGED <<lockFd, exc>>
       ELSE /\ LockRaises("AttributeError")
            /\ UNCHANGED lockFile
    /\ UNCHANGED <<limits, db, etc, call, nCalls, readOnly, hasClock, backup, peer>>

\* another process takes the lock on the sentinel
otherLocks ==
    /\ lockFile.exists
    /\ lockFile.holder = "none"
    /\ lockFile' = [lockFile EXCEPT !.holder = "other"]
    /\ UNCHANGED <<limits, db, etc, pc, call, exc, nCalls, readOnly, hasClock, lockFd, backup, peer>>

\* the other process releases it
otherUnlocks ==
    /\ lockFile.holder = "other"
    /\ lockFile' = [lockFile EXCEPT !.holder = "none"]
    /\ UNCHANGED <<limits, db, etc, pc, call, exc, nCalls, readOnly, hasClock, lockFd, backup, peer>>

\* the object when the parsing block and _verifyStage1 have run
Loaded(o) == IF o.exc = "none" THEN Raise(o, VerifyStage1(o)) ELSE o

\* __init__: the parsing block, whose "except:" releases the lock of a
\* writable session, then _verifyStage1 outside of it
load ==
    /\ \/ pc = "__init__" /\ ~Writable
       \/ pc = "_parsePasswd"
    /\ \E o \in {Parse(etc)} :
          /\ Becomes(Loaded(o))
          /\ pc' = IF Loaded(o).exc = "none" THEN "open" ELSE "initRaised"
          /\ lockFd' = IF o.exc # "none" /\ Writable THEN "none" ELSE lockFd
          /\ lockFile' = IF o.exc # "none" /\ Writable
                         THEN [lockFile EXCEPT !.holder = "none"] ELSE lockFile
    /\ UNCHANGED <<limits, etc, call, nCalls, readOnly, hasClock, backup, peer>>

LockNext ==
    \/ lockOpen
    \/ lockClock
    \/ lockf
    \/ otherLocks
    \/ otherUnlocks
    \/ load

LockSpec == LockInit /\ [][LockNext]_vars

\* ------------------------------------------------------------------------
\* Two processes that each construct a session that is not read-only on the
\* same directory, make their calls and close it.  The session of this
\* process is the one of the variables above; the session of the other
\* process is peer, which makes no call between __init__ and close().  The
\* lock on the sentinel belongs to one process at a time: lockFile.holder.

\* peer, _lockPwd: os.open(self.lockFile, O_WRONLY | O_CREAT | O_CLOEXEC)
peerLockOpen ==
    /\ peer.pc = "__init__"
    /\ peer' = [peer EXCEPT !.lockFd = "fd", !.pc = "_lockPwd.clock"]
    /\ lockFile' = [lockFile EXCEPT !.exists = TRUE]
    /\ UNCHANGED <<limits, db, etc, pc, call, exc, nCalls, readOnly, hasClock, lockFd, backup>>

\* peer, _lockPwd: t = time.clock() and the first test of the while loop
peerLockClock ==
    /\ peer.pc = "_lockPwd.clock"
    /\ peer' = IF hasClock
               THEN [peer EXCEPT !.pc = "_lockPwd.lockf"]
               ELSE [peer EXCEPT !.lockFd = "none", !.exc = "AttributeError",
                                 !.pc = "initRaised"]
    /\ UNCHANGED <<limits, db, etc, pc, call, exc, nCalls, readOnly, hasClock, lockFd,
                   lockFile, backup>>

\* peer, _lockPwd: fcntl.lockf(LOCK_EX | LOCK_NB) that succeeds whoever
\* holds the lock
peerLockfUnchecked ==
    /\ peer.pc = "_lockPwd.lockf"
    /\ lockFile' = [lockFile EXCEPT !.holder = "peer"]
    /\ peer' = [peer EXCEPT !.pc = "_parsePasswd"]
    /\ UNCHANGED <<limits, db, etc, pc, call, exc, nCalls, readOnly, hasClock, lockFd, backup>>

\* peer, _lockPwd: fcntl.lockf(LOCK_EX | LOCK_NB).  It returns with the lock
\* if no process holds it; otherwise it raises IOError and the handler
\* raises AttributeError on errno.EACCESS, and the descriptor is closed
peerLockf ==
    /\ peer.pc = "_lockPwd.lockf"
    /\ IF lockFile.holder = "none"
       THEN /\ lockFile' = [lockFile EXCEPT !.holder = "peer"]
            /\ peer' = [peer EXCEPT !.pc = "_parsePasswd"]
       ELSE /\ peer' = [peer EXCEPT !.lockFd = "none", !.exc = "AttributeError",
                                    !.pc = "initRaised"]
            /\ UNCHANGED lockFile
    /\ UNCHANGED <<limits, db, etc, pc, call, exc, nCalls, readOnly, hasClock, lockFd, backup>>

\* peer, __init__: the parsing block, whose "except:" releases the lock,
\* then _verifyStage1 outside of it
peerLoad ==
    /\ peer.pc = "_parsePasswd"
    /\ \E o \in {Parse(etc)} :
          /\ peer' = [peer EXCEPT
                        !.obj = Raise(Loaded(o), "none"),
                        !.exc = Loaded(o).exc,
                        !.pc = IF Loaded(o).exc = "none" THEN "open" ELSE "initRaised",
                        !.lockFd = IF o.exc # "none" THEN "none" ELSE @]
          /\ lockFile' = IF o.exc # "none"
                         THEN [lockFile EXCEPT !.holder = "none"] ELSE lockFile
    /\ UNCHANGED <<limits, db, etc, pc, call, exc, nCalls, readOnly, hasClock, lockFd, backup>>

\* peer, close(): self._fixate()
peerFixate ==
    /\ peer.pc \in {"open", "closeRaised"}
    /\ \E o \in {Fixate(peer.obj)} :
          peer' = [peer EXCEPT
                     !.obj = Raise(o, "none"),
                     !.exc = o.exc,
                     !.pc = IF o.exc = "none" THEN "fixated" ELSE "closeRaised"]
    /\ UNCHANGED <<limits, db, etc, pc, call, exc, nCalls, readOnly, hasClock, lockFd,
                   lockFile, backup>>

\* peer, close(): the next of the six writers
peerWrite ==
    /\ peer.pc \in {"fixated", "_writeGroup", "_writeShadow", "_writeGroupShadow",
                    "_writeSubUid", "_writeSubGid"}
    /\ \E w \in {CASE peer.pc = "fixated" -> WritePasswd(peer.obj, Disk)
                   [] peer.pc = "_writeGroup" -> WriteGroup(peer.obj, Disk)
                   [] peer.pc = "_writeShadow" -> WriteShadow(peer.obj, Disk)
                   [] peer.pc = "_writeGroupShadow" -> WriteGroupShadow(peer.obj, Disk)
                   [] peer.pc = "_writeSubUid" -> WriteSubUid(peer.obj, Disk)
                   [] OTHER -> WriteSubGid(peer.obj, Disk)} :
          /\ etc' = w.etc
          /\ backup' = w.backup
          /\ peer' = [peer EXCEPT
                        !.exc = w.exc,
                        !.pc = IF w.exc # "none" THEN "closeRaised"
                               ELSE CASE peer.pc = "fixated" -> "_writeGroup"
                                      [] peer.pc = "_writeGroup" -> "_writeShadow"
                                      [] peer.pc = "_writeShadow" -> "_writeGroupShadow"
                                      [] peer.pc = "_writeGroupShadow" -> "_writeSubUid"
                                      [] peer.pc = "_writeSubUid" -> "_writeSubGid"
                                      [] OTHER -> "_unlockPwd"]
    /\ UNCHANGED <<limits, db, pc, call, exc, nCalls, readOnly, hasClock, lockFd, lockFile>>

\* peer, close(): self._unlockPwd(), then self.valid = False
peerUnlockPwd ==
    /\ peer.pc = "_unlockPwd"
    /\ peer.lockFd # "none"
    /\ peer' = [peer EXCEPT !.lockFd = "none", !.exc = "none", !.pc = "closed"]
    /\ lockFile' = [lockFile EXCEPT !.holder = "none"]
    /\ UNCHANGED <<limits, db, etc, pc, call, exc, nCalls, readOnly, hasClock, lockFd, backup>>

\* both constructors have set the attributes and _parseLoginDef has returned
\* in both.  The files: with and without the user alice and subordinate
\* ranges, without etc/gshadow, with a user that has no group of its name,
\* and with a line of six fields in etc/passwd
TwoInit ==
    \E files \in {EtcFiles(1000, nUsers, FALSE, 0, sub, FALSE) :
                     nUsers \in 0..1, sub \in 0..1}
                 \cup {NoGroupShadowFiles(1000)}
                 \cup {ProbeFiles(0, "dave", 1500, 0, "$6$salt$hash", "video", 500, broken) :
                          broken \in BOOLEAN} :
       /\ etc = files
       /\ Attributes(NewObject(files.loginDefs))
       /\ pc = "__init__"
       /\ call = NoCall
       /\ exc = "none"
       /\ nCalls = 0
       /\ readOnly = FALSE
       /\ hasClock \in BOOLEAN
       /\ lockFd = "none"
       /\ lockFile \in {f \in LockFiles : f.holder = "none"}
       /\ backup = NoBackups
       /\ peer = [pc |-> "__init__", lockFd |-> "none", exc |-> "none",
                  obj |-> NewObject(files.loginDefs)]

TwoNext ==
    \/ lockOpen
    \/ lockClock
    \/ lockf
    \/ load
    \/ addNormalUser
    \/ fixate
    \/ writePasswd
    \/ writeGroup
    \/ writeShadow
    \/ writeGroupShadow
    \/ writeSubUid
    \/ writeSubGid
    \/ unlockPwd
    \/ peerLockOpen
    \/ peerLockClock
    \/ peerLockf
    \/ peerLoad
    \/ peerFixate
    \/ peerWrite
    \/ peerUnlockPwd

TwoSpec == TwoInit /\ [][TwoNext]_vars

\* ------------------------------------------------------------------------
\* Properties

\* the step is a call of the public method op on the open session
CallOf(op) ==
    pc \in {"open", "closeRaised"} /\ pc' = pc /\ nCalls' = nCalls + 1 /\ call'.op = op

\* the step is a call of any method of the mutation API
MutationCall ==
    pc \in {"open", "closeRaised"} /\ pc' = pc /\ nCalls' = nCalls + 1 /\ call'.op # "verify"

Tokens(g) == ListSet(NonEmptyTokens(grpDict[g].gr_mem))

AllNames ==
    DOMAIN pwdDict \cup DOMAIN grpDict \cup DOMAIN secondaryGroupsDict
    \cup UNION {Tokens(g) : g \in DOMAIN grpDict}
    \cup UNION {ListSet(secondaryGroupsDict[u]) : u \in DOMAIN secondaryGroupsDict}

\* C1: for every database that passes stage 1, _fixate completes and the
\* database it leaves passes every check of stage 2.
C1_FixateEstablishesStage2 ==
    [][(pc = "open" /\ pc' # "open" /\ VerifyStage1(Self) = "none")
         => (exc' = "none" /\ VerifyStage2(Self', etc') = "none")]_vars

\* C2: _fixate is idempotent: applied to the database a completed _fixate
\* left, it completes and changes no record, no list and no index entry.
C2_FixateIdempotent ==
    [][pc = "fixated" => (exc' = "none" /\ db' = db)]_vars

\* C3: after load and after any sequence of mutation calls, group g is in the
\* secondary-group index entry of user u exactly if g exists and u is a
\* token of g's member list.
C3_MembershipSynchronised ==
    pc = "open" =>
      \A u \in AllNames : \A g \in AllNames :
         (u \in DOMAIN secondaryGroupsDict /\ InList(g, secondaryGroupsDict[u]))
           <=> (g \in DOMAIN grpDict /\ u \in Tokens(g))

\* C4: a mutation call that fails leaves every record, every list and the
\* secondary-group index as they were before the call.
C4_FailedCallChangesNothing ==
    [][(MutationCall /\ exc' # "none") => db' = db]_vars

\* the step is a call of op that returned without raising
Succeeded(op) == CallOf(op) /\ exc' = "none"

RangeEnd(e) == e.start + e.count

\* no two ranges of different names in d share an id
NoOverlap(d) ==
    \A a \in DOMAIN d : \A b \in DOMAIN d :
       a # b => (RangeEnd(d[a]) <= d[b].start \/ RangeEnd(d[b]) <= d[a].start)

\* the uid of name is the uid of no other user and the gid of no group but
\* the group called name
FreshId(o, name) ==
    /\ \A u \in DOMAIN o.pwdDict : u # name => o.pwdDict[u].pw_uid # o.pwdDict[name].pw_uid
    /\ \A g \in DOMAIN o.grpDict : g # name => o.grpDict[g].gr_gid # o.pwdDict[name].pw_uid

\* C5: the id an add call hands out is the uid of no other user and the gid
\* of no group other than the new user's own group, and a mutation call on a
\* database whose subordinate ranges of different names are disjoint leaves
\* them disjoint.
C5_IdsAndRangesNeverShared ==
    [][/\ Succeeded("addNormalUser") => FreshId(Self', call'.name)
       /\ Succeeded("addStandAloneGroup")
            => \A g \in DOMAIN grpDict : grpDict'[call'.name].gr_gid # grpDict[g].gr_gid
       /\ (MutationCall /\ NoOverlap(subUidDict)) => NoOverlap(subUidDict')
       /\ (MutationCall /\ NoOverlap(subGidDict)) => NoOverlap(subGidDict')]_vars

\* addNormalUser returned, the id 1000 was taken by a group, and the new
\* user's ranges were placed after the ranges of another name
C5_Witness ==
    /\ call.op = "addNormalUser" /\ exc = "none" /\ pc = "open"
    /\ call.name \in DOMAIN pwdDict
    /\ pwdDict[call.name].pw_uid > 1000
    /\ 1000 \in {grpDict[g].gr_gid : g \in DOMAIN grpDict \ {call.name}}
    /\ \E u \in DOMAIN subUidDict \ {call.name} :
          subUidDict[call.name].start >= RangeEnd(subUidDict[u])
    /\ \E u \in DOMAIN subGidDict \ {call.name} :
          subGidDict[call.name].start >= RangeEnd(subGidDict[u])

\* the ids of the user and group records before the step
UsedIds == UidValues(Self) \cup GidValues(Self)

\* C6: addNormalUser with a name unused as user and as group name gives the
\* user uid = gid = the smallest n in 1000..9999 that is the uid of no user
\* and the gid of no group; it raises PgsAddUserError when there is no such n.
C6_SmallestFreeId ==
    [][(CallOf("addNormalUser")
          /\ call'.name \notin DOMAIN pwdDict /\ call'.name \notin DOMAIN grpDict)
         => IF \E n \in 1000..9999 : n \notin UsedIds
            THEN /\ exc' = "none"
                 /\ pwdDict'[call'.name].pw_uid \in 1000..9999
                 /\ pwdDict'[call'.name].pw_uid \notin UsedIds
                 /\ \A k \in 1000..(pwdDict'[call'.name].pw_uid - 1) : k \in UsedIds
                 /\ pwdDict'[call'.name].pw_gid = pwdDict'[call'.name].pw_uid
                 /\ grpDict'[call'.name].gr_gid = pwdDict'[call'.name].pw_uid
            ELSE exc' = "PgsAddUserError"]_vars

\* addNormalUser returned after it passed over ids 1000 and 1001, one taken
\* by a group and none of them free
C6_Witness ==
    /\ call.op = "addNormalUser" /\ exc = "none" /\ pc = "open"
    /\ call.name \in DOMAIN pwdDict
    /\ pwdDict[call.name].pw_uid >= 1002
    /\ \E g \in DOMAIN grpDict \ DOMAIN pwdDict : grpDict[g].gr_gid \in {1000, 1001}

\* the entry of name in d' is a block of count ids that starts at the
\* larger of min and the highest end of a range of d
PlacedOnTop(d, dNew, name, min, count) ==
    /\ name \in DOMAIN dNew
    /\ dNew[name].name = name
    /\ dNew[name].count = count
    /\ dNew[name].start >= min
    /\ \A k \in DOMAIN d : dNew[name].start >= RangeEnd(d[k])
    /\ \/ dNew[name].start = min
       \/ \E k \in DOMAIN d : dNew[name].start = RangeEnd(d[k])

\* C7: after a successful addNormalUser(name, password), name is in the
\* normal-user list, the per-user group name exists with gid = the user's
\* uid, name has a shadow entry, and name has a subordinate-uid and a
\* subordinate-gid range of the configured size starting at the larger of
\* the range minimum and the highest end of any range present before.
C7_AddNormalUserPostcondition ==
    [][Succeeded("addNormalUser")
         => /\ InList(call'.name, normalUserList') /\ call'.name \in DOMAIN pwdDict'
            /\ InList(call'.name, perUserGroupList') /\ call'.name \in DOMAIN grpDict'
            /\ grpDict'[call'.name].gr_gid = pwdDict'[call'.name].pw_uid
            /\ InList(call'.name, shadowEntryList') /\ call'.name \in DOMAIN shDict'
            /\ shDict'[call'.name].sh_encpwd = Encrypt(call'.arg)
            /\ InList(call'.name, subUidEntryList')
            /\ PlacedOnTop(subUidDict, subUidDict', call'.name, subUidMin, subUidCount)
            /\ InList(call'.name, subGidEntryList')
            /\ PlacedOnTop(subGidDict, subGidDict', call'.name, subGidMin, subGidCount)]_vars

\* addNormalUser returned and placed the new ranges above the range minimum,
\* past the end of the ranges of two other names
C7_Witness ==
    /\ call.op = "addNormalUser" /\ exc = "none" /\ pc = "open"
    /\ call.name \in DOMAIN subUidDict /\ call.name \in DOMAIN subGidDict
    /\ subUidDict[call.name].start > subUidMin
    /\ subGidDict[call.name].start > subGidMin
    /\ Cardinality(DOMAIN subUidDict) >= 3
    /\ InList(call.name, normalUserList)

\* C8: a successful mutation call on a database that passes stage 1 leaves a
\* database that passes stage 1.
C8_Stage1Preserved ==
    [][(MutationCall /\ exc' = "none" /\ VerifyStage1(Self) = "none")
         => VerifyStage1(Self') = "none"]_vars

\* C9: removeNormalUser with a name that has no user record raises nothing
\* and changes no record, no list, no member list and no index entry.
C9_RemoveAbsentUserIsNoOp ==
    [][(CallOf("removeNormalUser") /\ call'.name \notin DOMAIN pwdDict)
         => (exc' = "none" /\ db' = db)]_vars

\* C10: after removeNormalUser on a normal user of a database that passes
\* stage 1, the name has no user, group, shadow or subordinate-id record, is
\* a token of no member list, has no index entry, and no index entry names
\* the removed per-user group.
C10_RemoveNormalUserPostcondition ==
    [][(CallOf("removeNormalUser") /\ InList(call'.name, normalUserList)
          /\ VerifyStage1(Self) = "none")
         => /\ exc' = "none"
            /\ call'.name \notin DOMAIN pwdDict' /\ call'.name \notin DOMAIN grpDict'
            /\ call'.name \notin DOMAIN shDict'
            /\ call'.name \notin DOMAIN subUidDict' /\ call'.name \notin DOMAIN subGidDict'
            /\ \A g \in DOMAIN grpDict' :
                  ~InList(call'.name, NonEmptyTokens(grpDict'[g].gr_mem))
            /\ call'.name \notin DOMAIN secondaryGroupsDict'
            /\ \A u \in DOMAIN secondaryGroupsDict' :
                  ~InList(call'.name, secondaryGroupsDict'[u])]_vars

\* the secondary-group set of username: the groups of its index entry
SecondaryGroupSet(o, username) ==
    IF username \in DOMAIN o.secondaryGroupsDict
    THEN ListSet(o.secondaryGroupsDict[username]) ELSE {}

\* the members that the member field of groupname lists, in its order
MemberList(o, groupname) == NonEmptyTokens(o.grpDict[groupname].gr_mem)

\* the object after modifyNormalUser(username, MUSER_LEAVE_GROUP, groupname)
\* called on o, compared with the object before: same secondary-group set of
\* username, same member list of groupname
LeaveRestores(before, o, username, groupname) ==
    /\ ModifyNormalUser(o, username, MUSER_LEAVE_GROUP, groupname).exc = "none"
    /\ SecondaryGroupSet(ModifyNormalUser(o, username, MUSER_LEAVE_GROUP, groupname), username)
         = SecondaryGroupSet(before, username)
    /\ MemberList(ModifyNormalUser(o, username, MUSER_LEAVE_GROUP, groupname), groupname)
         = MemberList(before, groupname)

\* the step is a successful modifyNormalUser(username, MUSER_JOIN_GROUP, groupname)
Joined == Succeeded("modifyNormalUser") /\ call'.mop = MUSER_JOIN_GROUP

\* C11 (as stated): after a successful JoinGroup of a normal user u and a
\* joinable group g, LeaveGroup of u and g gives back the secondary-group set
\* of u and the member list of g from before the join, also when u was a
\* member of g before the join.
C11_JoinThenLeaveRestoresAlways ==
    [][Joined => LeaveRestores(Self, Self', call'.name, call'.arg)]_vars

\* C11 (amended): the same when, before the join, u was no token of g's
\* member field and g was not in the index entry of u.
C11_JoinThenLeaveRestores ==
    [][(Joined
          /\ ~InList(call'.name, MemberList(Self, call'.arg))
          /\ call'.arg \notin SecondaryGroupSet(Self, call'.name))
         => LeaveRestores(Self, Self', call'.name, call'.arg)]_vars

\* the first call of the session was bob joining audio, a group that had
\* other members and never had bob, and leaving it now succeeds
C11_Witness ==
    /\ pc = "open" /\ nCalls = 1 /\ exc = "none"
    /\ call.op = "modifyNormalUser" /\ call.mop = MUSER_JOIN_GROUP
    /\ call.name = "bob" /\ call.arg = "audio"
    /\ Len(MemberList(Self, "audio")) >= 2
    /\ "audio" \in SecondaryGroupSet(Self, "bob")
    /\ ModifyNormalUser(Self, "bob", MUSER_LEAVE_GROUP, "audio").exc = "none"
    /\ ~InList("bob", MemberList(ModifyNormalUser(Self, "bob", MUSER_LEAVE_GROUP, "audio"), "audio"))

\* the step is a modifyNormalUser(u, MUSER_JOIN_GROUP, g) call for a normal user u
JoinCall ==
    /\ CallOf("modifyNormalUser") /\ call'.mop = MUSER_JOIN_GROUP
    /\ InList(call'.name, normalUserList)

\* C12: JoinGroup returns normally only for a group of the system, device,
\* stand-alone or software list; for a per-user group, a deprecated group or
\* a name with no group record it raises, and no member field and no index
\* entry changes.
C12_JoinOnlyJoinableGroups ==
    [][JoinCall
         => /\ exc' = "none"
                 => (call'.arg \in DOMAIN grpDict /\ InList(call'.arg, JoinableGroups(Self)))
            /\ (\/ InList(call'.arg, perUserGroupList)
                \/ InList(call'.arg, deprecatedGroupList)
                \/ call'.arg \notin DOMAIN grpDict)
                 => (/\ exc' # "none"
                     /\ grpDict' = grpDict
                     /\ secondaryGroupsDict' = secondaryGroupsDict)]_vars

\* the shell field of every user record
Shells(o) == [u \in DOMAIN o.pwdDict |-> o.pwdDict[u].pw_shell]

\* C13: modifyNormalUser(u, MUSER_SET_SHELL, ...) raises for every normal user
\* u and every argument, and the shell field of no user changes.
C13_SetShellAlwaysFails ==
    [][(CallOf("modifyNormalUser") /\ call'.mop = MUSER_SET_SHELL
          /\ InList(call'.name, normalUserList))
         => (exc' = "AssertionError" /\ Shells(Self') = Shells(Self))]_vars

\* SetShell was called for the normal user alice with a shell other than
\* the one alice has, and raised
C13_Witness ==
    /\ pc = "open" /\ call.op = "modifyNormalUser" /\ call.mop = MUSER_SET_SHELL
    /\ call.name = "alice" /\ InList("alice", normalUserList)
    /\ "alice" \in DOMAIN pwdDict /\ pwdDict["alice"].pw_shell # call.arg
    /\ exc = "AssertionError"

\* C14: addStandAloneGroup with a name that no group has returns normally
\* whenever some n in 5000..9999 is the gid of no group, and then the group
\* record of the name is in the stand-alone list with the smallest such n as
\* gid and an empty member field; it raises PgsAddGroupError when there is
\* no such n.
C14_AddStandAloneGroup ==
    [][(CallOf("addStandAloneGroup") /\ call'.name \notin DOMAIN grpDict)
         => IF \E n \in 5000..9999 : n \notin GidValues(Self)
            THEN /\ exc' = "none"
                 /\ call'.name \in DOMAIN grpDict'
                 /\ InList(call'.name, standAloneGroupList')
                 /\ grpDict'[call'.name].gr_gid \in 5000..9999
                 /\ grpDict'[call'.name].gr_gid \notin GidValues(Self)
                 /\ \A k \in 5000..(grpDict'[call'.name].gr_gid - 1) : k \in GidValues(Self)
                 /\ grpDict'[call'.name].gr_mem = <<"">>
            ELSE exc' = "PgsAddGroupError"]_vars

\* the group records, the category lists and the secondary-group index
groupState ==
    <<grpDict, secondaryGroupsDict,
      systemUserList, normalUserList, softwareUserList, deprecatedUserList,
      systemGroupList, deviceGroupList, perUserGroupList, standAloneGroupList,
      softwareGroupList, deprecatedGroupList>>

\* C15: removeStandAloneGroup(name) raises nothing; for a name that is not a
\* stand-alone group (no group, or a group of another category) it leaves
\* every group record, every category list and every index entry as they
\* were; for a stand-alone group it removes the group record and takes the
\* name out of every index entry.
C15_RemoveStandAloneGroup ==
    [][CallOf("removeStandAloneGroup")
         => /\ exc' = "none"
            /\ IF InList(call'.name, standAloneGroupList)
               THEN /\ call'.name \notin DOMAIN grpDict'
                    /\ \A u \in DOMAIN secondaryGroupsDict' :
                          ~InList(call'.name, secondaryGroupsDict'[u])
               ELSE groupState' = groupState]_vars

\* C16: closing a writable session overwrites files only once the fixated
\* database has passed verification: the first writer of close() starts only
\* on a database that passes the stage-1 and the stage-2 checks.
C16_WritesOnlyAfterVerification ==
    [][(pc = "fixated" /\ call'.op = "_writePasswd")
         => Verify(Self, etc) = "none"]_vars

\* C17: a read-only session holds no descriptor of the lock sentinel and, at
\* every step of it (accessor, verify, mutation or close), the six account
\* files, their backups and the lock sentinel stay as they were at open.
C17_ReadOnlyNeverLocksOrWrites ==
    /\ (readOnly => lockFd = "none" /\ lockFile.holder # "self")
    /\ [][readOnly => /\ etc' = etc
                      /\ backup' = backup
                      /\ lockFile' = lockFile
                      /\ lockFd' = "none"]_vars

\* a read-only session closed after a call that added a user in memory
C17_Witness ==
    /\ readOnly
    /\ pc = "closed"
    /\ nCalls >= 1
    /\ "carol" \in DOMAIN pwdDict
    /\ backup = NoBackups
    /\ ~lockFile.exists

\* C18: when the lock attempt of _lockPwd fails because another process
\* holds the lock, the acquirer goes on to sleep and retry, or fails with
\* PgsLockError; and whenever _lockPwd has raised the session holds no
\* descriptor of the sentinel.
C18_ContentionRetriesOrLockError ==
    /\ [][(pc = "_lockPwd.lockf" /\ pc' # pc /\ lockFile.holder = "other")
            => (pc' = "_lockPwd.sleep" \/ exc' = "PgsLockError")]_vars
    /\ [][(pc \in {"_lockPwd.clock", "_lockPwd.lockf"} /\ pc' = "initRaised")
            => lockFd' = "none"]_vars

\* the records, the category lists in their order, and the secondary-group
\* sets of a and b are the same
SameDatabase(a, b) ==
    /\ a.pwdDict = b.pwdDict
    /\ a.grpDict = b.grpDict
    /\ a.shDict = b.shDict
    /\ a.subUidDict = b.subUidDict
    /\ a.subGidDict = b.subGidDict
    /\ a.systemUserList = b.systemUserList
    /\ a.normalUserList = b.normalUserList
    /\ a.softwareUserList = b.softwareUserList
    /\ a.deprecatedUserList = b.deprecatedUserList
    /\ a.systemGroupList = b.systemGroupList
    /\ a.deviceGroupList = b.deviceGroupList
    /\ a.perUserGroupList = b.perUserGroupList
    /\ a.standAloneGroupList = b.standAloneGroupList
    /\ a.softwareGroupList = b.softwareGroupList
    /\ a.deprecatedGroupList = b.deprecatedGroupList
    /\ a.shadowEntryList = b.shadowEntryList
    /\ a.subUidEntryList = b.subUidEntryList
    /\ a.subGidEntryList = b.subGidEntryList
    /\ DOMAIN a.secondaryGroupsDict = DOMAIN b.secondaryGroupsDict
    /\ \A u \in DOMAIN a.secondaryGroupsDict :
          ListSet(a.secondaryGroupsDict[u]) = ListSet(b.secondaryGroupsDict[u])

\* the files after the six writers have written the database
Written == WriteAll(Self, Disk)

\* C19: for the database of a session that has just loaded, the six writers
\* raise nothing and loading the files they wrote gives the same records,
\* the same category lists in the same order and the same secondary-group
\* sets.
C19_RoundTrip ==
    (pc = "open" /\ nCalls = 0)
       => /\ Written.exc = "none"
          /\ Parse(Written.etc).exc = "none"
          /\ SameDatabase(Self, Parse(Written.etc))

\* how many times name occurs in list
Occurrences(name, list) == Cardinality({i \in 1..Len(list) : list[i] = name})

\* the four user category lists, and the six group category lists, in a row
UserCategories ==
    systemUserList \o normalUserList \o softwareUserList \o deprecatedUserList

GroupCategories ==
    systemGroupList \o perUserGroupList \o deviceGroupList \o standAloneGroupList
      \o softwareGroupList \o deprecatedGroupList

\* C20: in every state of an open session, after load and after every
\* mutation call, each user record's name occurs exactly once in the four
\* user category lists taken together, each group record's name exactly once
\* in the six group category lists, and the lists name only existing records.
C20_CategoriesCoveringAndDisjoint ==
    pc = "open"
       => /\ \A u \in DOMAIN pwdDict : Occurrences(u, UserCategories) = 1
          /\ \A g \in DOMAIN grpDict : Occurrences(g, GroupCategories) = 1
          /\ ListSet(UserCategories) \subseteq DOMAIN pwdDict
          /\ ListSet(GroupCategories) \subseteq DOMAIN grpDict

\* the parsing block of the constructor has run
Parsed == pc \in {"open", "initRaised"} /\ call = NoCall /\ DOMAIN pwdDict # {}

\* C21: after the files are parsed, a user whose name is in the fixed system
\* (deprecated) user list is in systemUserList (deprecatedUserList), and a
\* group whose name is in the fixed system, device or deprecated group list
\* is in the category list of that name list, whatever its uid or gid.
C21_FixedNamesBeforeRanges ==
    Parsed
       => /\ \A u \in DOMAIN pwdDict :
                /\ InList(u, StdSystemUserList) => InList(u, systemUserList)
                /\ InList(u, StdDeprecatedUserList) => InList(u, deprecatedUserList)
          /\ \A g \in DOMAIN grpDict :
                /\ InList(g, StdSystemGroupList) => InList(g, systemGroupList)
                /\ InList(g, StdDeviceGroupList) => InList(g, deviceGroupList)
                /\ InList(g, StdDeprecatedGroupList) => InList(g, deprecatedGroupList)

\* the step is the end of a constructor whose parsing block raised nothing
\* and whose _verifyStage1 raised
Stage1Raises ==
    /\ pc \in {"__init__", "_parsePasswd"}
    /\ pc' = "initRaised"
    /\ Parse(etc).exc = "none"

\* C22: when stage 1 rejects the parsed files (a system or normal user with
\* no shadow entry, a normal user with no per-user group, with a uid out of
\* range or unlike its group's gid, with a short hash, a stand-alone group
\* with a gid out of range), the constructor fails with PgsFormatError.
C22_Stage1FailsWithFormatError ==
    [][Stage1Raises => exc' = "PgsFormatError"]_vars

\* every range of d starts in [min, max), on a multiple of count above min,
\* and has count ids
RangesValid(d, min, max, count) ==
    \A u \in DOMAIN d :
       /\ min <= d[u].start /\ d[u].start < max
       /\ (d[u].start - min) % count = 0
       /\ d[u].count = count

\* C23: when verify() returns without raising, the subordinate-uid ranges
\* of different names share no id, likewise the subordinate-gid ranges, and
\* every range starts in [min, max), is aligned and has the block size.
C23_VerifiedRangesDisjoint ==
    [][Succeeded("verify")
         => /\ NoOverlap(subUidDict)
            /\ NoOverlap(subGidDict)
            /\ RangesValid(subUidDict, subUidMin, subUidMax, subUidCount)
            /\ RangesValid(subGidDict, subGidMin, subGidMax, subGidCount)]_vars

\* C25: when the constructor of a session has failed, and when close() has
\* ended, by returning or by raising, the session holds no descriptor of the
\* lock sentinel and no lock on it.
C25_LockReleasedWhenSessionEnds ==
    pc \in {"initRaised", "closed", "closeRaised"}
       => lockFd = "none" /\ lockFile.holder # "self"

FileNames == {"passwd", "group", "shadow", "gshadow", "subuid", "subgid"}

\* C26: a step of close() that writes a file which existed before the step
\* leaves, in the file's backup, the content the file had before the step;
\* as close() writes each file once, that is its content before the close.
C26_BackupPrecedesOverwrite ==
    [][\A name \in FileNames :
          ((etc'[name] # etc[name] \/ backup'[name] # backup[name]) /\ etc[name].exists)
             => backup'[name] = etc[name]]_vars

\* close() has come as far as _writeShadow after a call that added a user:
\* passwd and group are overwritten and have their backups, shadow has none
C26_Witness ==
    /\ pc = "_writeShadow"
    /\ nCalls >= 1
    /\ backup.passwd.exists /\ backup.passwd # etc.passwd
    /\ backup.group.exists /\ backup.group # etc.group
    /\ ~backup.shadow.exists

\* C27: in the close of a writable session the writer of the group-hash file
\* raises nothing whether or not the file exists, backs it up only if it
\* exists and leaves it existing and empty; the writers of the two
\* subordinate-id files raise nothing and leave them existing; and close()
\* goes on to release the lock.
C27_CloseWithMissingFiles ==
    [][/\ (pc = "_writeGroupShadow" /\ pc' # pc)
            => /\ exc' = "none"
               /\ etc'.gshadow = File(<<>>)
               /\ backup'.gshadow.exists = etc.gshadow.exists
       /\ (pc = "_writeSubUid" /\ pc' # pc)
            => exc' = "none" /\ etc'.subuid.exists
       /\ (pc = "_writeSubGid" /\ pc' # pc)
            => exc' = "none" /\ etc'.subgid.exists /\ pc' = "_unlockPwd"
       /\ (pc = "_unlockPwd" /\ pc' # pc)
            => pc' = "closed" /\ lockFd' = "none"]_vars

\* the lists of the object o are in the canonical orders
CanonicalOrders(o) ==
    /\ IsSorted([i \in 1..Len(o.normalUserList) |-> o.pwdDict[o.normalUserList[i]].pw_uid])
    /\ o.perUserGroupList = o.normalUserList
    /\ IsSorted([i \in 1..Len(o.standAloneGroupList) |->
                   o.grpDict[o.standAloneGroupList[i]].gr_gid])
    /\ o.shadowEntryList = o.systemUserList \o o.normalUserList
    /\ o.subUidEntryList = o.normalUserList \o o.softwareUserList
    /\ o.subGidEntryList = o.subUidEntryList

\* C28: on every database that passes stage 1, with or without stand-alone
\* groups, _fixate completes and leaves the normal users in uid order, the
\* per-user groups in the order of the normal users, the stand-alone groups
\* in gid order, the shadow list equal to system users then normal users,
\* the subordinate-uid list equal to normal users then software users and
\* the subordinate-gid list equal to the subordinate-uid list.
C28_FixateCanonicalOrders ==
    [][(pc \in {"open", "closeRaised"} /\ call'.op = "_fixate"
          /\ VerifyStage1(Self) = "none")
         => (exc' = "none" /\ CanonicalOrders(Self'))]_vars

\* every range that dNew has and d has not lies in [min, max)
CreatedInSpace(d, dNew, min, max, count) ==
    \A u \in DOMAIN dNew \ DOMAIN d :
       /\ min <= dNew[u].start
       /\ dNew[u].start < max
       /\ dNew[u].start + count <= max

\* C29: every subordinate-uid and subordinate-gid range that a call of
\* addNormalUser or a run of _fixate creates starts in [min, max) and ends
\* at max or below.
C29_CreatedRangesInSpace ==
    [][(CallOf("addNormalUser")
          \/ (pc \in {"open", "closeRaised"} /\ call'.op = "_fixate"))
         => /\ CreatedInSpace(subUidDict, subUidDict', subUidMin, subUidMax, subUidCount)
            /\ CreatedInSpace(subGidDict, subGidDict', subGidMin, subGidMax, subGidCount)]_vars

\* the names of the groups of o whose member field lists username
MembershipsOf(o, username) ==
    {g \in DOMAIN o.grpDict : InList(username, NonEmptyTokens(o.grpDict[g].gr_mem))}

\* the shadow and subordinate-id records of username in o, and its index
\* entry, each as a set holding the record when there is one
RecordsOf(o, username) ==
    [sh     |-> {o.shDict[n] : n \in DOMAIN o.shDict \cap {username}},
     subuid |-> {o.subUidDict[n] : n \in DOMAIN o.subUidDict \cap {username}},
     subgid |-> {o.subGidDict[n] : n \in DOMAIN o.subGidDict \cap {username}},
     listed |-> <<InList(username, o.shadowEntryList),
                  InList(username, o.subUidEntryList),
                  InList(username, o.subGidEntryList)>>]

\* C30: removeNormalUser called with the name of an existing user that is
\* not a normal user (a system, software or deprecated user) leaves that
\* user's passwd and shadow records, subordinate-uid and subordinate-gid
\* records and group memberships as they were, and a database that passed
\* stage 1 before the call passes it after the call.
C30_RemoveAffectsOnlyNormalUsers ==
    [][(CallOf("removeNormalUser") /\ call'.name \in DOMAIN pwdDict
          /\ ~InList(call'.name, normalUserList))
         => /\ call'.name \in DOMAIN pwdDict'
            /\ RecordsOf(Self', call'.name) = RecordsOf(Self, call'.name)
            /\ MembershipsOf(Self', call'.name) = MembershipsOf(Self, call'.name)
            /\ (VerifyStage1(Self) = "none" => VerifyStage1(Self') = "none")]_vars

\* the session of this process is between a lockf that returned and the
\* release of the lock
SelfInSession == lockFd = "fd" /\ pc \notin {"_lockPwd.clock", "_lockPwd.lockf"}

\* the session of the other process is between a lockf that returned and
\* the release of the lock
PeerInSession ==
    peer.lockFd = "fd" /\ peer.pc \notin {"_lockPwd.clock", "_lockPwd.lockf"}

\* where a session is that has not taken the lock yet, or has ended
\* without a close(): before and in _lockPwd, or after a constructor that
\* raised
NoClose == {"__init__", "_lockPwd.clock", "_lockPwd.lockf", "initRaised"}

\* C24: of two processes with a session that is not read-only on the same
\* directory, never both are between a successful lock acquisition and the
\* release of the lock; and when one of them loads the files, the session
\* of the other has not taken the lock, or its constructor has raised, or
\* its close() has returned and the six files are what its six writers
\* wrote.
C24_MutualExclusion ==
    /\ [](~(SelfInSession /\ PeerInSession))
    /\ [][(peer.pc = "_parsePasswd" /\ peer'.pc # "_parsePasswd")
            => \/ pc \in NoClose
               \/ pc = "closed" /\ WriteAll(Self, Disk).etc = etc]_vars
    /\ [][(pc = "_parsePasswd" /\ pc' # "_parsePasswd")
            => \/ peer.pc \in NoClose
               \/ peer.pc = "closed" /\ WriteAll(peer.obj, Disk).etc = etc]_vars

\* both sessions are closed, and the other process loaded the user bob that
\* this process added and wrote
C24_Witness ==
    /\ pc = "closed"
    /\ peer.pc = "closed"
    /\ "bob" \in DOMAIN peer.obj.pwdDict
    /\ ~SelfInSession /\ ~PeerInSession

====
